---- MODULE Spec2Model ----
(***************************************************************************)
(* Model of the cultivation game plugin (astrbot_plugin_monixiuxian2):     *)
(* the activity scheduler (cultivation / adventure / rift), the world boss *)
(* and the storage-ring gift exchange.                                     *)
(*                                                                         *)
(* Two granularities are used.  A command handler that runs alone is one   *)
(* action (the whole coroutine).  Where a claim is about commands that     *)
(* overlap, the coroutine is cut at its `await` points: every await on the *)
(* database is a point at which the event loop may run another coroutine.  *)
(***************************************************************************)
EXTENDS Integers, Sequences, FiniteSets, TLC

(***************************************************************************)
(* Bounds and configuration values                                         *)
(***************************************************************************)
Users == {"u1", "u2"}

\* clock: int(time.time()), positive, advanced in steps of TickStep up to MaxTime
MaxTime == 120
TickStep == 20
\* commands issued in one behaviour
MaxCmds == 3
\* coroutines the event loop runs at the same time
Tasks == {"t1", "t2"}

\* adventure_config.json values of the one modelled route (seconds)
CfgRouteDuration == 40
CfgFatigueCooldown == 20
\* rift_config "default_duration" (seconds)
CfgExploreDuration == 20
\* cultivation experience per minute (realm / root dependent configuration)
CfgBaseExpPerMinute == 5
\* player data
CfgMaxHp == 200
CfgMaxMp == 100
CfgLevelIndex == 1
CfgExperience == 1000
\* spawn_boss(base_exp): the base_exp a direct call passes
BossBaseExp == 1200
\* the damage one battle deals to the boss is 0, BossHit or everything left
BossHit == 200
\* execute_battle: both combatants' max_hp and max_mp, the damage of one hit,
\* the skills' mp cost, cooldown, effect duration and effect values
BattleMaxHp == 20
BattleMaxMp == 2
BattleHit == 8
SkillMpCost == 1
SkillCooldown == 2
StunDuration == 2
PoisonDuration == 2
PoisonValue == 8
PactSelfDamage == 17
PactShield == 4
DrainLifesteal == 50
MpBurnValue == 3
HealValue == 5
\* execute_breakthrough: number of realms, experience needed per realm step,
\* attribute gain per realm step, the player's attributes and pools before
\* the attempt, attempts per player
LevelCount == 3
BtExpNeeded == 100
BtGain == 4
BtAttribute == 11
BtMaxPool == 50
MaxBtCalls == 2
\* handle_duel / handle_spar: clock step and horizon, the combatants' max_hp
\* in battle, a final hp between dead and untouched
CultShortStep == 3600
CultLongStep == 21600
MaxCultTime == 136800
CombatTickStep == 100
MaxCombatTime == 400
CombatBaseHp == 30
CombatPartialHp == 7
\* _apply_damage: the hp, shield and damage values tried
MaxHitHp == 5
MaxHitShield == 4
MaxHitDamage == 7
\* storage rings: item names, ring capacity (distinct names), stock and gift sizes
Items == {"iron", "herb"}
RingCapacity == 1
MaxStock == 2
MaxGiftCount == 2
MaxGiftCmds == 4

\* program constants
MinuteSecs == 60
BaseCultivationMinutes == 1440
RealmBonusMinutes == 360
LevelsPerRealm == 9
InjuryFatigue == 600
RouteBaseExpPerMin == 45
RouteBaseGoldPerMin == 10
RouteLevelBonusExp == 12
RouteLevelBonusGold == 3
RouteCompletionExp == 300
RouteCompletionGold == 120
RiftExpMin == 1000
RiftExpMax == 5000
RiftGoldMin == 500
RiftGoldMax == 2000
StatusAlive == 1
StatusDefeated == 0
BossDefeatCooldown == 600
MAX_ROUNDS == 50
DUEL_COOLDOWN == 300
SPAR_COOLDOWN == 60
\* "skill.get('mp_exhausted_penalty', 0.5)", in percent
DefaultMpPenalty == 50

Min(a, b) == IF a <= b THEN a ELSE b
Max(a, b) == IF a >= b THEN a ELSE b

(***************************************************************************)
(* State                                                                   *)
(***************************************************************************)
VARIABLES
    now,            \* int(time.time())
    player,         \* players table: user -> row; state "idle" / "cultivating"
                    \* stand for the two values the handler writes to Player.state
    user_cd,        \* user_cd table: user -> row, or NoCd when the row is absent
    route_cooldowns,\* AdventureManager._route_cooldowns: user -> cooldown end
    ncmd,           \* number of commands handled so far
    last,           \* the reply of the last command
    task,           \* coroutines in flight: task -> command, user, position, locals
    bosses,         \* boss table: sequence of rows, boss_id = position
    boss_defeat_time, \* user_cd.extra_data['last_boss_defeat_time'], 0 when absent
    payouts,        \* history: the stone rewards paid for boss challenges
    rings,          \* storage ring content: user -> item name -> count
    pending_gifts,  \* storage_ring_handler.pending_gifts: receiver -> gift or NoGift
    battle,         \* one execute_battle call: its locals and the two CombatStats
    hit,            \* one _apply_damage call: target before, damage, target after
    breakthrough,   \* one execute_breakthrough call: the Player, its row, the result
    combat_cooldowns, \* combat_cooldowns table: user -> last_duel_time, last_spar_time
    battle_result,  \* the last duel or spar command: its parties and execute_battle's result
    skills,         \* Player.learned_skills / equipped_skills: user -> the two lists
    equipment,      \* Player.weapon / armor / main_technique: user -> slot -> item name
    shop,           \* shop table of today, the buyers' gold and inventory, handle_buy calls
    impart,         \* impart_info table: user -> impart_atk_per in thousandths
    dual,           \* DualCultivationManager: pending_requests, last dual times, history
    bounty          \* bounty_tasks rows, abandon cooldowns, calls in flight, payments

bossVars == <<bosses, boss_defeat_time, payouts>>
giftVars == <<rings, pending_gifts>>
battleVars == <<battle, hit>>
extVars == <<breakthrough, combat_cooldowns, battle_result>>
svcVars == <<skills, equipment, shop, impart, dual, bounty>>
sysVars == <<now, player, user_cd, route_cooldowns, ncmd, last, task, bossVars, giftVars,
             extVars, svcVars>>
vars == <<now, player, user_cd, route_cooldowns, ncmd, last, task, bossVars, giftVars,
          battleVars, extVars, svcVars>>

\* what the actions of each specification leave alone
frameAct == <<task, bossVars, giftVars, battleVars, extVars, svcVars>>
frameConc == <<now, route_cooldowns, bossVars, giftVars, battleVars, extVars, svcVars>>
frameBoss == <<now, route_cooldowns, giftVars, battleVars, extVars, svcVars>>
frameGift == <<now, player, user_cd, route_cooldowns, task, bossVars, battleVars, extVars, svcVars>>

NoCd == [type |-> "NONE", create_time |-> 0, scheduled_time |-> 0]
IdleCd == [type |-> "IDLE", create_time |-> 0, scheduled_time |-> 0]

\* basis: the duration the reward was computed from; elapsed: the time actually spent
NoReply == [cmd |-> "none", user |-> "none", ok |-> FALSE, why |-> "none",
            exp |-> 0, gold |-> 0, basis |-> 0, elapsed |-> 0]

Reply(cmd, u, ok, why, exp, gold, basis) ==
    [cmd |-> cmd, user |-> u, ok |-> ok, why |-> why,
     exp |-> exp, gold |-> gold, basis |-> basis, elapsed |-> 0]

Settled(cmd, u, exp, gold, basis, elapsed) ==
    [cmd |-> cmd, user |-> u, ok |-> TRUE, why |-> "ok",
     exp |-> exp, gold |-> gold, basis |-> basis, elapsed |-> elapsed]

\* event groups of the route: multiplier in tenths, injury flag
Events == { [key |-> "steady_path", mult10 |-> 11, injury |-> FALSE],
            [key |-> "minor_skirmish", mult10 |-> 12, injury |-> FALSE],
            [key |-> "ambush", mult10 |-> 7, injury |-> TRUE] }

(***************************************************************************)
(* db.ext: the user_cd table                                               *)
(***************************************************************************)
\* get_user_cd followed by create_user_cd when the row is absent
GetOrCreateCd(cd) == IF cd.type = "NONE" THEN IdleCd ELSE cd

\* "user_cd and user_cd.type != UserStatus.IDLE"
CdBusy(cd) == cd.type # "NONE" /\ cd.type # "IDLE"

SetUserBusy(kind, t, scheduled) ==
    [type |-> kind, create_time |-> t, scheduled_time |-> scheduled]

SetUserFree == IdleCd

(***************************************************************************)
(* Initial state: every modelled user has a player row (player_required),  *)
(* nobody has started anything.                                            *)
(***************************************************************************)
BlankRow == [state |-> "idle", cultivation_start_time |-> 0,
             experience |-> 0, gold |-> 0, items |-> 0,
             hp |-> 0, max_hp |-> 0, mp |-> 0, max_mp |-> 0, level_index |-> 0]

NoBoss == [boss_id |-> 0, hp |-> 0, max_hp |-> 0, stone_reward |-> 0, status |-> 0]

NoTask == [cmd |-> "none", user |-> "none", pc |-> "idle", p |-> BlankRow, arg |-> 0,
           cd |-> NoCd, boss |-> NoBoss, reward |-> 0, dealt |-> 0]

InitTasks == task = [t \in Tasks |-> NoTask]

InitBoss ==
    /\ bosses = <<>>
    /\ boss_defeat_time = [u \in Users |-> 0]
    /\ payouts = {}

NoGift == [sender_id |-> "none", item_name |-> "none", count |-> 0]

\* number of distinct item names a ring holds
Distinct(ring) == Cardinality({i \in Items : ring[i] > 0})

InitGift ==
    /\ rings \in { r \in [Users -> [Items -> {0, MaxStock}]] :
                      \A u \in Users : Distinct(r[u]) <= RingCapacity }
    /\ pending_gifts = [u \in Users |-> NoGift]

\* a CombatStats nobody fights with, a damage call nobody made
NoExpired == [initial |-> 0, skipped |-> 0]

NoStats ==
    [hp |-> 0, max_hp |-> 0, mp |-> 0, max_mp |-> 0, shield |-> 0,
     skill |-> "none", cooldown |-> 0, debuffs |-> <<>>, expired |-> NoExpired,
     cast_round |-> 0]

NoHit ==
    [shield |-> 0, hp |-> 0, damage |-> 0, shield_after |-> 0, hp_after |-> 0,
     returned |-> 0]

NoBattle ==
    [battle_type |-> "none", round_num |-> 0, pc |-> "none", first |-> "none",
     cs |-> [c \in {"p1", "p2"} |-> NoStats],
     winner |-> "none", loser |-> "none", is_draw |-> FALSE,
     exit |-> "none", conceded |-> -1]

\* Player attributes that execute_breakthrough reads or writes
NoSeeker ==
    [level_index |-> 0, experience |-> 0, lifespan |-> 0,
     physical_damage |-> 0, magic_damage |-> 0,
     physical_defense |-> 0, magic_defense |-> 0, mental_power |-> 0,
     spiritual_qi |-> 0, max_spiritual_qi |-> 0,
     hp |-> 0, max_hp |-> 0, mp |-> 0, max_mp |-> 0,
     has_resurrection_pill |-> FALSE]

\* player: the object passed in; saved: its row in the players table;
\* exists: the row has not been deleted; the rest is the call's result
NoBreakthrough ==
    [player |-> NoSeeker, saved |-> NoSeeker, exists |-> FALSE, calls |-> 0,
     outcome |-> "none", before |-> NoSeeker]

NoCombatCd == [last_duel_time |-> 0, last_spar_time |-> 0]

\* ran: execute_battle was called; p1_final / p2_final: the hp it returned
NoBattleResult ==
    [cmd |-> "none", user |-> "none", target |-> "none", ran |-> FALSE,
     p1_final |-> [hp |-> 0, max_hp |-> 0], p2_final |-> [hp |-> 0, max_hp |-> 0]]

InitNoCombat ==
    /\ combat_cooldowns = [u \in Users |-> NoCombatCd]
    /\ battle_result = NoBattleResult

InitNoExt ==
    /\ breakthrough = NoBreakthrough
    /\ InitNoCombat

InitNoBattle ==
    /\ battle = NoBattle
    /\ hit = NoHit

\* the specifications without gift commands run with empty rings
InitNoGift ==
    /\ rings = [u \in Users |-> [i \in Items |-> 0]]
    /\ pending_gifts = [u \in Users |-> NoGift]

\* the player has learned nothing and equipped nothing
NoSkills == [u \in Users |-> [learned_skills |-> <<>>, equipped_skills |-> <<>>]]

\* the three slots the equipment commands fill; "" is an empty slot
EquipSlots == {"weapon", "armor", "main_technique"}
NoEquipment == [u \in Users |-> [s \in EquipSlots |-> ""]]

\* no handle_buy call in flight
NoBuy == [pc |-> "idle", quantity |-> 0, total_cost |-> 0]
NoShop == [stock |-> 0, on_sale |-> 0, inventory |-> [u \in Users |-> 0],
           call |-> [u \in Users |-> NoBuy]]

\* get_impart_info returns None for a user without a row
NoImpartInfo == -1
NoImpartResult == [attacker |-> "", defender |-> "", winner |-> "", attacker_wins |-> FALSE,
                   gain |-> 0]
NoImpart == [info |-> [u \in Users |-> NoImpartInfo], result |-> NoImpartResult]

\* no pending request, nobody has dual cultivated yet
NoRequest == [from_id |-> "", time |-> 0]
NoDual == [pending_requests |-> [u \in Users |-> NoRequest],
           last_dual_time |-> [u \in Users |-> 0], done |-> <<>>]

\* no bounty_tasks row, no abandon cooldown, no call in flight
NoBountyCall == [op |-> "none", user |-> "none", pc |-> "idle", active |-> 0,
                 gold |-> 0, experience |-> 0, time |-> 0, progress |-> 0]
NoBounty == [tasks |-> <<>>, abandon_cd |-> [u \in Users |-> 0], txn |-> FALSE,
             call |-> [t \in Tasks |-> NoBountyCall], paid |-> <<>>]

\* the specifications of the other commands leave these subsystems untouched
InitNoSvc ==
    /\ skills = NoSkills
    /\ equipment = NoEquipment
    /\ shop = NoShop
    /\ impart = NoImpart
    /\ dual = NoDual
    /\ bounty = NoBounty

InitAct ==
    /\ now = TickStep
    /\ player \in [Users -> { [state |-> "idle", cultivation_start_time |-> 0,
                               experience |-> CfgExperience, gold |-> 0, items |-> 0,
                               hp |-> h, max_hp |-> CfgMaxHp,
                               mp |-> CfgMaxMp, max_mp |-> CfgMaxMp,
                               level_index |-> CfgLevelIndex] : h \in {1, CfgMaxHp} }]
    /\ user_cd = [u \in Users |-> NoCd]
    /\ route_cooldowns = [u \in Users |-> 0]
    /\ ncmd = 0
    /\ last = NoReply

\* time passes
Tick ==
    /\ now + TickStep <= MaxTime
    /\ now' = now + TickStep
    /\ UNCHANGED <<player, user_cd, route_cooldowns, ncmd, last>>
    /\ UNCHANGED frameAct

Issue == ncmd < MaxCmds /\ ncmd' = ncmd + 1

(***************************************************************************)
(* PlayerHandler.handle_start_cultivation                                  *)
(***************************************************************************)
CultivationStartAllowed_NoCdCheck(p, cd) == p.state # "cultivating"

CultivationStartAllowed(p, cd) == p.state # "cultivating" /\ ~CdBusy(cd)

StartCultivation(u) ==
    /\ Issue
    /\ IF CultivationStartAllowed(player[u], user_cd[u])
       THEN /\ player' = [player EXCEPT ![u].state = "cultivating",
                                        ![u].cultivation_start_time = now]
            /\ user_cd' = [user_cd EXCEPT ![u] = SetUserBusy("CULTIVATING", now, 0)]
            /\ last' = Reply("start_cultivation", u, TRUE, "ok", 0, 0, 0)
       ELSE /\ UNCHANGED <<player, user_cd>>
            /\ last' = Reply("start_cultivation", u, FALSE, "busy", 0, 0, 0)
    /\ UNCHANGED <<now, route_cooldowns>>
    /\ UNCHANGED frameAct

(***************************************************************************)
(* PlayerHandler.handle_end_cultivation                                    *)
(***************************************************************************)
DurationMinutes_RoundUp(p, t) ==
    (t - p.cultivation_start_time + MinuteSecs - 1) \div MinuteSecs

DurationMinutes(p, t) == (t - p.cultivation_start_time) \div MinuteSecs

MaxCultivationMinutes(p) ==
    BaseCultivationMinutes + (p.level_index \div LevelsPerRealm) * RealmBonusMinutes

EffectiveMinutes_Uncapped(p, t) == DurationMinutes(p, t)

EffectiveMinutes(p, t) == Min(DurationMinutes(p, t), MaxCultivationMinutes(p))

\* cultivation_manager.calculate_cultivation_exp (no technique, no pills)
CultivationExp(minutes) == minutes * CfgBaseExpPerMinute

\* int(max_hp * min(1.0, minutes * 0.005)): 0.005 = 5/1000
HpRecovery(p, minutes) == (p.max_hp * Min(1000, minutes * 5)) \div 1000

\* int(max_mp * min(1.0, minutes * 0.005))
MpRecovery(p, minutes) == (p.max_mp * Min(1000, minutes * 5)) \div 1000

Recovered_Uncapped(current, maximum, recovery) == current + recovery

\* "player.hp = min(player.max_hp, player.hp + hp_recovery)", the same for mp
Recovered(current, maximum, recovery) == Min(maximum, current + recovery)

EndCultivation(u) ==
    /\ Issue
    /\ LET p == player[u] IN
       IF p.state # "cultivating"
       THEN /\ UNCHANGED <<player, user_cd>>
            /\ last' = Reply("end_cultivation", u, FALSE, "not_cultivating", 0, 0, 0)
       ELSE IF p.cultivation_start_time = 0
       THEN /\ UNCHANGED <<player, user_cd>>
            /\ last' = Reply("end_cultivation", u, FALSE, "no_start_time", 0, 0, 0)
       ELSE IF DurationMinutes(p, now) < 1
       THEN /\ UNCHANGED <<player, user_cd>>
            /\ last' = Reply("end_cultivation", u, FALSE, "not_ready", 0, 0, 0)
       ELSE LET m == EffectiveMinutes(p, now)
                gained == CultivationExp(m)
            IN /\ player' = [player EXCEPT
                       ![u].hp = Recovered(p.hp, p.max_hp, HpRecovery(p, m)),
                       ![u].mp = Recovered(p.mp, p.max_mp, MpRecovery(p, m)),
                       ![u].experience = p.experience + gained,
                       ![u].state = "idle",
                       ![u].cultivation_start_time = 0]
               /\ user_cd' = [user_cd EXCEPT ![u] = SetUserFree]
               /\ last' = Settled("end_cultivation", u, gained, 0, m, DurationMinutes(p, now))
    /\ UNCHANGED <<now, route_cooldowns>>
    /\ UNCHANGED frameAct

(***************************************************************************)
(* AdventureManager.start_adventure                                        *)
(***************************************************************************)
AdventureStartAllowed(cd) == GetOrCreateCd(cd).type = "IDLE"

StartAdventure(u) ==
    /\ Issue
    /\ IF ~AdventureStartAllowed(user_cd[u])
       THEN /\ user_cd' = [user_cd EXCEPT ![u] = GetOrCreateCd(user_cd[u])]
            /\ last' = Reply("start_adventure", u, FALSE, "busy", 0, 0, 0)
       ELSE IF route_cooldowns[u] > now
       THEN /\ user_cd' = [user_cd EXCEPT ![u] = GetOrCreateCd(user_cd[u])]
            /\ last' = Reply("start_adventure", u, FALSE, "cooldown", 0, 0, 0)
       ELSE /\ user_cd' = [user_cd EXCEPT
                   ![u] = SetUserBusy("ADVENTURING", now, now + CfgRouteDuration)]
            /\ last' = Reply("start_adventure", u, TRUE, "ok", 0, 0, 0)
    /\ UNCHANGED <<now, player, route_cooldowns>>
    /\ UNCHANGED frameAct

(***************************************************************************)
(* AdventureManager.finish_adventure                                       *)
(***************************************************************************)
ScheduledDuration(cd) == Max(1, cd.scheduled_time - cd.create_time)

EffectiveDuration_Unclamped(cd, t) == t - cd.create_time

EffectiveDuration(cd, t) == Min(t - cd.create_time, ScheduledDuration(cd))

\* _calculate_rewards
RewardMinutes(duration) == Max(1, duration \div MinuteSecs)

RewardExp(p, duration, ev) ==
    Max(0, ((RewardMinutes(duration) * RouteBaseExpPerMin
             + p.level_index * RouteLevelBonusExp + RouteCompletionExp) * ev.mult10) \div 10)

RewardGold(p, duration, ev) ==
    Max(0, ((RewardMinutes(duration) * RouteBaseGoldPerMin
             + p.level_index * RouteLevelBonusGold + RouteCompletionGold) * ev.mult10) \div 10)

AdventureFinishAllowed_NoDeadline(cd, t) == cd.type = "ADVENTURING"

AdventureFinishAllowed(cd, t) == cd.type = "ADVENTURING" /\ t >= cd.scheduled_time

FinishAdventure(u) ==
    /\ Issue
    /\ LET cd == user_cd[u]
           p == player[u]
       IN
       IF cd.type # "ADVENTURING"
       THEN /\ UNCHANGED <<player, user_cd, route_cooldowns>>
            /\ last' = Reply("finish_adventure", u, FALSE, "wrong_kind", 0, 0, 0)
       ELSE IF ~AdventureFinishAllowed(cd, now)
       THEN /\ UNCHANGED <<player, user_cd, route_cooldowns>>
            /\ last' = Reply("finish_adventure", u, FALSE, "not_ready", 0, 0, 0)
       ELSE \E ev \in Events, drop \in {0, 1} :
            LET d == EffectiveDuration(cd, now)
                fatigue == CfgFatigueCooldown + (IF ev.injury THEN InjuryFatigue ELSE 0)
            IN /\ player' = [player EXCEPT
                       ![u].experience = p.experience + RewardExp(p, d, ev),
                       ![u].gold = p.gold + RewardGold(p, d, ev),
                       ![u].items = p.items + drop]
               /\ user_cd' = [user_cd EXCEPT ![u] = SetUserFree]
               /\ route_cooldowns' = [route_cooldowns EXCEPT ![u] = now + fatigue]
               /\ last' = Settled("finish_adventure", u, RewardExp(p, d, ev),
                                  RewardGold(p, d, ev), d, now - cd.create_time)
    /\ UNCHANGED now
    /\ UNCHANGED frameAct

(***************************************************************************)
(* RiftManager.enter_rift / finish_exploration / exit_rift                 *)
(***************************************************************************)
RiftEnterAllowed(cd) == GetOrCreateCd(cd).type = "IDLE"

\* rift_ok: the rift exists and the player's realm meets its requirement
EnterRift(u) ==
    /\ Issue
    /\ \E rift_ok \in BOOLEAN :
       IF ~RiftEnterAllowed(user_cd[u])
       THEN /\ user_cd' = [user_cd EXCEPT ![u] = GetOrCreateCd(user_cd[u])]
            /\ last' = Reply("enter_rift", u, FALSE, "busy", 0, 0, 0)
       ELSE IF ~rift_ok
       THEN /\ user_cd' = [user_cd EXCEPT ![u] = GetOrCreateCd(user_cd[u])]
            /\ last' = Reply("enter_rift", u, FALSE, "no_rift", 0, 0, 0)
       ELSE /\ user_cd' = [user_cd EXCEPT
                   ![u] = SetUserBusy("EXPLORING", now, now + CfgExploreDuration)]
            /\ last' = Reply("enter_rift", u, TRUE, "ok", 0, 0, 0)
    /\ UNCHANGED <<now, player, route_cooldowns>>
    /\ UNCHANGED frameAct

ExplorationFinishAllowed(cd, t) == cd.type = "EXPLORING" /\ t >= cd.scheduled_time

FinishExploration(u) ==
    /\ Issue
    /\ LET cd == user_cd[u]
           p == player[u]
       IN
       IF cd.type # "EXPLORING"
       THEN /\ UNCHANGED <<player, user_cd>>
            /\ last' = Reply("finish_exploration", u, FALSE, "wrong_kind", 0, 0, 0)
       ELSE IF ~ExplorationFinishAllowed(cd, now)
       THEN /\ UNCHANGED <<player, user_cd>>
            /\ last' = Reply("finish_exploration", u, FALSE, "not_ready", 0, 0, 0)
       ELSE \E e \in {RiftExpMin, RiftExpMax}, g \in {RiftGoldMin, RiftGoldMax} :
            /\ player' = [player EXCEPT ![u].experience = p.experience + e,
                                         ![u].gold = p.gold + g]
            /\ user_cd' = [user_cd EXCEPT ![u] = SetUserFree]
            /\ last' = Settled("finish_exploration", u, e, g, 0, now - cd.create_time)
    /\ UNCHANGED <<now, route_cooldowns>>
    /\ UNCHANGED frameAct

ExitRift(u) ==
    /\ Issue
    /\ IF user_cd[u].type # "EXPLORING"
       THEN /\ UNCHANGED user_cd
            /\ last' = Reply("exit_rift", u, FALSE, "wrong_kind", 0, 0, 0)
       ELSE /\ user_cd' = [user_cd EXCEPT ![u] = SetUserFree]
            /\ last' = Reply("exit_rift", u, TRUE, "ok", 0, 0, 0)
    /\ UNCHANGED <<now, player, route_cooldowns>>
    /\ UNCHANGED frameAct

(***************************************************************************)
(* Commands handled one at a time                                          *)
(***************************************************************************)
NextAct ==
    \/ Tick
    \/ \E u \in Users : StartCultivation(u)
    \/ \E u \in Users : EndCultivation(u)
    \/ \E u \in Users : StartAdventure(u)
    \/ \E u \in Users : FinishAdventure(u)
    \/ \E u \in Users : EnterRift(u)
    \/ \E u \in Users : FinishExploration(u)
    \/ \E u \in Users : ExitRift(u)

InitSpecAct == InitAct /\ InitTasks /\ InitBoss /\ InitNoGift /\ InitNoBattle /\ InitNoExt /\ InitNoSvc

SpecAct == InitSpecAct /\ [][NextAct]_vars

(***************************************************************************)
(* Activity claims (commands handled one at a time)                        *)
(***************************************************************************)
StartCmds == {"start_cultivation", "start_adventure", "enter_rift"}

\* the user's recorded activity: the player row's state and the user_cd row
IsBusy(u) == player[u].state = "cultivating" \/ CdBusy(user_cd[u])
IsIdle(u) == ~IsBusy(u)
Activity(u) == <<player[u].state, player[u].cultivation_start_time,
                 user_cd[u].type, user_cd[u].create_time, user_cd[u].scheduled_time>>

\* this step handles command cmd of user u
Handled(u, cmd) == ncmd' = ncmd + 1 /\ last'.user = u /\ last'.cmd = cmd

\* the two records of a user's activity never name two different activities
OneBusyState ==
    \A u \in Users :
        /\ player[u].state = "cultivating" <=> user_cd[u].type = "CULTIVATING"
        /\ user_cd[u].type \in {"NONE", "IDLE", "CULTIVATING", "ADVENTURING", "EXPLORING"}

StartStep ==
    \A u \in Users : \A c \in StartCmds :
        Handled(u, c) =>
            /\ last'.ok => IsIdle(u)
            /\ IsBusy(u) => (~last'.ok /\ Activity(u)' = Activity(u))

\* C1: a start command (start cultivation, start adventure, enter rift) succeeds
\* only when the user is Idle; issued while the user is Busy it fails and leaves
\* the recorded activity unchanged; a user is never in two Busy states at once.
C1_StartRequiresIdle == []OneBusyState /\ [][StartStep]_vars

\* a start was refused because the user was busy with another activity
C1_Witness ==
    /\ last.cmd \in StartCmds /\ ~last.ok /\ last.why = "busy"
    /\ IsBusy(last.user)

FinishStep ==
    \A u \in Users :
        /\ Handled(u, "finish_adventure") =>
              /\ last'.ok => /\ user_cd[u].type = "ADVENTURING"
                             /\ now >= user_cd[u].scheduled_time
                             /\ IsIdle(u)'
              /\ user_cd[u].type # "ADVENTURING" =>
                    /\ ~last'.ok
                    /\ player'[u] = player[u] /\ user_cd'[u] = user_cd[u]
                    /\ route_cooldowns'[u] = route_cooldowns[u]
        /\ Handled(u, "finish_exploration") =>
              /\ last'.ok => /\ user_cd[u].type = "EXPLORING"
                             /\ now >= user_cd[u].scheduled_time
                             /\ IsIdle(u)'
              /\ user_cd[u].type # "EXPLORING" =>
                    /\ ~last'.ok
                    /\ player'[u] = player[u] /\ user_cd'[u] = user_cd[u]
                    /\ route_cooldowns'[u] = route_cooldowns[u]

\* C3: finish adventure / finish exploration succeeds only when the user is Busy
\* with that kind and now >= deadline; on success the user becomes Idle; when the
\* kind does not match nothing is changed.
C3_FinishRequiresMatchingKindAndDeadline == [][FinishStep]_vars

\* an adventure was finished at or after its deadline and the user is Idle again
C3_Witness ==
    /\ last.cmd = "finish_adventure" /\ last.ok
    /\ last.elapsed >= last.basis
    /\ user_cd[last.user].type = "IDLE" /\ player[last.user].state = "idle"

\* the finish command cmd of user u comes before the activity can be settled
Premature(u, cmd) ==
    \/ /\ cmd = "finish_adventure" /\ user_cd[u].type = "ADVENTURING"
       /\ now < user_cd[u].scheduled_time
    \/ /\ cmd = "finish_exploration" /\ user_cd[u].type = "EXPLORING"
       /\ now < user_cd[u].scheduled_time
    \/ /\ cmd = "end_cultivation" /\ player[u].state = "cultivating"
       /\ now - player[u].cultivation_start_time < MinuteSecs

PrematureStep ==
    \A u \in Users :
        \A c \in {"finish_adventure", "finish_exploration", "end_cultivation"} :
            (Handled(u, c) /\ Premature(u, c)) =>
                /\ ~last'.ok /\ last'.exp = 0 /\ last'.gold = 0
                /\ player' = player
                /\ user_cd' = user_cd
                /\ IsBusy(u)'

\* C4: a finish command issued before the deadline (adventure, rift) or less than
\* one minute after starting cultivation grants no experience, gold or items and
\* leaves the user in the same Busy state with the same start time and deadline.
C4_PrematureFinishChangesNothing == [][PrematureStep]_vars

\* a premature end of cultivation was refused
C4_Witness ==
    /\ last.cmd = "end_cultivation" /\ ~last.ok /\ last.why = "not_ready"
    /\ player[last.user].state = "cultivating"
    /\ now > player[last.user].cultivation_start_time

Rewards(u) == <<player[u].experience, player[u].gold, player[u].items>>

SettleStep ==
    \A u \in Users :
        /\ (Handled(u, "finish_adventure") /\ last'.ok) =>
              LET sched == user_cd[u].scheduled_time - user_cd[u].create_time IN
              /\ last'.basis = sched
              /\ \E ev \in Events :
                    /\ last'.exp = RewardExp(player[u], sched, ev)
                    /\ last'.gold = RewardGold(player[u], sched, ev)
                    /\ player'[u].experience = player[u].experience + last'.exp
                    /\ player'[u].gold = player[u].gold + last'.gold
        /\ (Handled(u, "finish_exploration") /\ last'.ok) =>
              /\ last'.exp \in RiftExpMin..RiftExpMax
              /\ last'.gold \in RiftGoldMin..RiftGoldMax
        /\ Rewards(u)' # Rewards(u) =>
              /\ last'.ok /\ ncmd' = ncmd + 1 /\ last'.user = u
              /\ last'.cmd \in {"finish_adventure", "finish_exploration", "end_cultivation"}

\* C5: when a timed activity is finished after its deadline the elapsed time used
\* for the reward is the scheduled duration, however late the finish command is;
\* no reward is granted before the user issues the finish command.
C5_LateFinishClampedToSchedule == [][SettleStep]_vars

\* an adventure was settled later than its deadline
C5_Witness ==
    /\ last.cmd = "finish_adventure" /\ last.ok
    /\ last.elapsed > last.basis

(***************************************************************************)
(* Overlapping commands on one player row.  Each `await` on the database   *)
(* ends a step; between two steps of a coroutine the event loop may run    *)
(* any other coroutine.  Neither the handlers nor DataBase take a lock.    *)
(***************************************************************************)
Dispatch(t, u, cmd, arg) ==
    /\ task[t].pc = "idle"
    /\ ncmd < MaxCmds
    /\ ncmd' = ncmd + 1
    /\ task' = [task EXCEPT ![t] = [NoTask EXCEPT !.cmd = cmd, !.user = u,
                                                   !.pc = "load", !.arg = arg]]
    /\ UNCHANGED <<player, user_cd, last>>
    /\ UNCHANGED frameConc

\* player = await db.get_player_by_id(user_id)
Load(t) ==
    /\ task[t].pc = "load"
    /\ task' = [task EXCEPT ![t].p = player[task[t].user], ![t].pc = "loaded"]
    /\ UNCHANGED <<player, user_cd, ncmd, last>>
    /\ UNCHANGED frameConc

\* DataBase.update_player: UPDATE players SET <every column> WHERE user_id = ...
UpdatePlayer(rows, u, row) == [rows EXCEPT ![u] = row]

\* handle_start_cultivation up to "await self.db.update_player(player)"
SC_CheckAndSet(t) ==
    /\ task[t].cmd = "start_cultivation" /\ task[t].pc = "loaded"
    /\ IF CultivationStartAllowed(task[t].p, user_cd[task[t].user])
       THEN /\ task' = [task EXCEPT ![t].p.state = "cultivating",
                                    ![t].p.cultivation_start_time = now,
                                    ![t].pc = "commit"]
            /\ UNCHANGED last
       ELSE /\ task' = [task EXCEPT ![t] = NoTask]
            /\ last' = Reply("start_cultivation", task[t].user, FALSE, "busy", 0, 0, 0)
    /\ UNCHANGED <<player, user_cd, ncmd>>
    /\ UNCHANGED frameConc

SC_Commit(t) ==
    /\ task[t].cmd = "start_cultivation" /\ task[t].pc = "commit"
    /\ player' = UpdatePlayer(player, task[t].user, task[t].p)
    /\ task' = [task EXCEPT ![t].pc = "set_busy"]
    /\ UNCHANGED <<user_cd, ncmd, last>>
    /\ UNCHANGED frameConc

SC_SetBusy(t) ==
    /\ task[t].cmd = "start_cultivation" /\ task[t].pc = "set_busy"
    /\ user_cd' = [user_cd EXCEPT ![task[t].user] = SetUserBusy("CULTIVATING", now, 0)]
    /\ last' = Reply("start_cultivation", task[t].user, TRUE, "ok", 0, 0, 0)
    /\ task' = [task EXCEPT ![t] = NoTask]
    /\ UNCHANGED <<player, ncmd>>
    /\ UNCHANGED frameConc

\* CombatHandlers._apply_duel_damage: hp = max(1, int(max_hp * final_hp / max_hp)),
\* arg is the combatant's final hp in percent of its max_hp
DuelHp(row, percent) == Max(1, (row.max_hp * percent) \div 100)

DD_Compute(t) ==
    /\ task[t].cmd = "apply_duel_damage" /\ task[t].pc = "loaded"
    /\ task' = [task EXCEPT ![t].p.hp = DuelHp(task[t].p, task[t].arg),
                            ![t].pc = "commit"]
    /\ UNCHANGED <<player, user_cd, ncmd, last>>
    /\ UNCHANGED frameConc

DD_Commit(t) ==
    /\ task[t].cmd = "apply_duel_damage" /\ task[t].pc = "commit"
    /\ player' = UpdatePlayer(player, task[t].user, task[t].p)
    /\ last' = Reply("apply_duel_damage", task[t].user, TRUE, "ok", 0, 0, 0)
    /\ task' = [task EXCEPT ![t] = NoTask]
    /\ UNCHANGED <<user_cd, ncmd>>
    /\ UNCHANGED frameConc

DuelPercents == {0, 50}

NextConc ==
    \/ \E t \in Tasks, u \in Users : Dispatch(t, u, "start_cultivation", 0)
    \/ \E t \in Tasks, u \in Users, a \in DuelPercents :
           Dispatch(t, u, "apply_duel_damage", a)
    \/ \E t \in Tasks : Load(t)
    \/ \E t \in Tasks : SC_CheckAndSet(t)
    \/ \E t \in Tasks : SC_Commit(t)
    \/ \E t \in Tasks : SC_SetBusy(t)
    \/ \E t \in Tasks : DD_Compute(t)
    \/ \E t \in Tasks : DD_Commit(t)

InitSpecConc == InitAct /\ InitTasks /\ InitBoss /\ InitNoGift /\ InitNoBattle /\ InitNoExt /\ InitNoSvc

SpecConc == InitSpecConc /\ [][NextConc]_vars

\* the coroutine holds a copy of the user's row that it has not yet written back
InCritical(t) == task[t].pc \in {"loaded", "commit", "set_busy"}

\* C2: for any user at most one command is between loading that user's state
\* and committing it.
C2_SingleWriterPerUser ==
    \A t1, t2 \in Tasks :
        (t1 # t2 /\ InCritical(t1) /\ InCritical(t2)) => task[t1].user # task[t2].user

\* what the missing serialisation costs: a write of a stale row undoes a committed
\* start of cultivation (the row says idle, the user_cd table says CULTIVATING)
C2_NoLostUpdate ==
    \A u \in Users :
        (user_cd[u].type = "CULTIVATING" /\ \A t \in Tasks : task[t].user # u)
            => player[u].state = "cultivating"

(***************************************************************************)
(* BossManager (managers/boss_manager.py of the plugin package).  The boss *)
(* table is reached through db.ext; storage_ring_manager is None, so a     *)
(* victory drops no items.                                                 *)
(***************************************************************************)
\* spawn_boss: "max_hp = int(base_exp * hp_mult // 2)" with the level 0 multipliers
BossMaxHpOf(base_exp) == base_exp \div 2

BossStoneRewardOf(base_exp) == base_exp \div 10

NewBoss(id, base_exp) ==
    [boss_id |-> id, hp |-> BossMaxHpOf(base_exp), max_hp |-> BossMaxHpOf(base_exp),
     stone_reward |-> BossStoneRewardOf(base_exp), status |-> StatusAlive]

ActiveBosses == {i \in 1..Len(bosses) : bosses[i].status = StatusAlive}

\* db.ext.get_active_boss: a row whose status is alive, None when there is none
GetActiveBoss ==
    IF ActiveBosses = {} THEN {NoBoss} ELSE {bosses[i] : i \in ActiveBosses}

\* db.ext.create_boss: INSERT, the new row's id is returned
CreateBoss(rows, base_exp) == Append(rows, NewBoss(Len(rows) + 1, base_exp))

\* db.ext.defeat_boss(boss_id)
DefeatBoss(rows, id) == [rows EXCEPT ![id].status = StatusDefeated]

\* db.ext.update_boss(boss): stores the hp of the caller's Boss object
UpdateBoss(rows, b) == [rows EXCEPT ![b.boss_id].hp = b.hp]

\* auto_spawn_boss: "avg_exp = total_exp // len(all_players)", "int(avg_exp * 1.2)"
RECURSIVE SumExp(_, _)
SumExp(rows, us) ==
    IF us = {} THEN 0
    ELSE LET u == CHOOSE x \in us : TRUE
         IN rows[u].experience + SumExp(rows, us \ {u})

AutoBaseExp(rows) == ((SumExp(rows, Users) \div Cardinality(Users)) * 12) \div 10

\* auto_spawn_boss up to "await self.db.get_all_players()"
AS_Check(t) ==
    /\ task[t].cmd = "auto_spawn_boss" /\ task[t].pc = "load"
    /\ \E b \in GetActiveBoss :
         IF b # NoBoss
         THEN /\ task' = [task EXCEPT ![t] = NoTask]
              /\ last' = Reply("auto_spawn_boss", "none", FALSE, "boss_exists", 0, 0, 0)
         ELSE /\ task' = [task EXCEPT ![t].pc = "as_players"]
              /\ UNCHANGED last
    /\ UNCHANGED <<player, user_cd, ncmd, bossVars>>
    /\ UNCHANGED frameBoss

\* the players are read, the boss is sized, spawn_boss is entered
AS_GetPlayers(t) ==
    /\ task[t].cmd = "auto_spawn_boss" /\ task[t].pc = "as_players"
    /\ task' = [task EXCEPT ![t].arg = AutoBaseExp(player), ![t].pc = "sp_check"]
    /\ UNCHANGED <<player, user_cd, ncmd, last, bossVars>>
    /\ UNCHANGED frameBoss

\* spawn_boss: "existing_boss = await self.db.ext.get_active_boss()"
SP_Check(t) ==
    /\ \/ task[t].cmd = "spawn_boss" /\ task[t].pc = "load"
       \/ task[t].cmd = "auto_spawn_boss" /\ task[t].pc = "sp_check"
    /\ \E b \in GetActiveBoss :
         IF b # NoBoss
         THEN /\ task' = [task EXCEPT ![t] = NoTask]
              /\ last' = Reply(task[t].cmd, "none", FALSE, "boss_exists", 0, 0, 0)
         ELSE /\ task' = [task EXCEPT ![t].pc = "sp_create"]
              /\ UNCHANGED last
    /\ UNCHANGED <<player, user_cd, ncmd, bossVars>>
    /\ UNCHANGED frameBoss

\* spawn_boss: "boss_id = await self.db.ext.create_boss(boss)"
SP_Create(t) ==
    /\ task[t].pc = "sp_create"
    /\ bosses' = CreateBoss(bosses, task[t].arg)
    /\ last' = Reply(task[t].cmd, "none", TRUE, "ok", 0, 0, 0)
    /\ task' = [task EXCEPT ![t] = NoTask]
    /\ UNCHANGED <<player, user_cd, ncmd, boss_defeat_time, payouts>>
    /\ UNCHANGED frameBoss

\* challenge_boss: "reward = int(boss.stone_reward * damage_ratio * 0.3)" with
\* damage_dealt = boss.max_hp - p2_final.hp; for the modelled values the float
\* product truncates to the same integer
ConsolationReward(b, boss_final_hp) ==
    IF b.max_hp > 0
    THEN (b.stone_reward * (b.max_hp - boss_final_hp) * 3) \div (b.max_hp * 10)
    ELSE 0

\* execute_battle(player, boss, "duel") seen from outside: the boss loses d hp;
\* the player wins by killing it, or at the round cap with the higher hp ratio
\* (the boss is then below full hp); the player does not win when it dies,
\* even if the boss dies in the same action (a draw), or when it has the lower
\* ratio at the cap.  pct is the player's final hp in percent; it is read only
\* after a victory and is 0 otherwise
BattleOutcomes(b) ==
    { [win |-> w, boss_hp |-> Max(0, b.hp - d), pct |-> pct] :
        w \in BOOLEAN, d \in {0, BossHit, b.max_hp}, pct \in {0, 50, 100} }

BattleOutcomePossible(b, o) ==
    /\ o.win => o.pct > 0
    /\ (o.win /\ o.boss_hp > 0) => o.boss_hp < b.max_hp
    /\ ~o.win => o.pct = 0

\* "if player.hp <= 1": ten minutes of rest after a defeat
ChallengeResting(p, defeat_time) ==
    /\ p.hp <= 1
    /\ defeat_time # 0
    /\ now - defeat_time < BossDefeatCooldown

\* "player = await self.db.get_player_by_id(user_id)"
CB_Load(t) == task[t].cmd = "challenge_boss" /\ Load(t)

\* "boss = await self.db.ext.get_active_boss()"
CB_GetBoss(t) ==
    /\ task[t].cmd = "challenge_boss" /\ task[t].pc = "loaded"
    /\ \E b \in GetActiveBoss :
         IF b = NoBoss
         THEN /\ task' = [task EXCEPT ![t] = NoTask]
              /\ last' = Reply("challenge_boss", task[t].user, FALSE, "no_boss", 0, 0, 0)
         ELSE /\ task' = [task EXCEPT ![t].boss = b, ![t].pc = "get_cd"]
              /\ UNCHANGED last
    /\ UNCHANGED <<player, user_cd, ncmd, bossVars>>
    /\ UNCHANGED frameBoss

\* from "user_cd = await self.db.ext.get_user_cd(user_id)" through the battle to
\* the next await: defeat_boss after a victory, update_boss after a defeat
CB_Battle(t) ==
    LET u  == task[t].user
        cd == GetOrCreateCd(user_cd[u])
        b  == task[t].boss
    IN
    /\ task[t].cmd = "challenge_boss" /\ task[t].pc = "get_cd"
    /\ user_cd' = [user_cd EXCEPT ![u] = cd]
    /\ IF CdBusy(cd) \/ ChallengeResting(task[t].p, boss_defeat_time[u])
       THEN /\ task' = [task EXCEPT ![t] = NoTask]
            /\ last' = Reply("challenge_boss", u, FALSE,
                             IF CdBusy(cd) THEN "busy" ELSE "resting", 0, 0, 0)
       ELSE /\ \E o \in BattleOutcomes(b) :
                 /\ BattleOutcomePossible(b, o)
                 /\ task' = [task EXCEPT
                      ![t].cd = cd,
                      ![t].dealt = b.hp - o.boss_hp,
                      ![t].arg = o.pct,
                      ![t].reward = IF o.win THEN b.stone_reward
                                    ELSE ConsolationReward(b, o.boss_hp),
                      ![t].boss.status = IF o.win THEN StatusDefeated ELSE b.status,
                      ![t].boss.hp = IF o.win THEN b.hp ELSE o.boss_hp,
                      ![t].pc = IF o.win THEN "defeat" ELSE "update_boss"]
            /\ UNCHANGED last
    /\ UNCHANGED <<player, ncmd, bossVars>>
    /\ UNCHANGED frameBoss

\* "await self.db.ext.defeat_boss(boss.boss_id)", then the reward and the hp left
CB_Defeat(t) ==
    /\ task[t].cmd = "challenge_boss" /\ task[t].pc = "defeat"
    /\ bosses' = DefeatBoss(bosses, task[t].boss.boss_id)
    /\ task' = [task EXCEPT ![t].p.gold = @ + task[t].reward,
                            ![t].p.hp = DuelHp(task[t].p, task[t].arg),
                            ![t].p.mp = task[t].p.max_mp,
                            ![t].pc = "commit_win"]
    /\ UNCHANGED <<player, user_cd, ncmd, last, boss_defeat_time, payouts>>
    /\ UNCHANGED frameBoss

Payout(t, full) ==
    [boss |-> task[t].boss.boss_id, user |-> task[t].user, task |-> t, full |-> full,
     amount |-> task[t].reward, dealt |-> task[t].dealt,
     max_hp |-> task[t].boss.max_hp, stone_reward |-> task[t].boss.stone_reward]

\* victory: "await self.db.update_player(player)"
CB_CommitWin(t) ==
    /\ task[t].cmd = "challenge_boss" /\ task[t].pc = "commit_win"
    /\ player' = UpdatePlayer(player, task[t].user, task[t].p)
    /\ payouts' = payouts \cup {Payout(t, TRUE)}
    /\ last' = Reply("challenge_boss", task[t].user, TRUE, "win", 0, task[t].reward, 0)
    /\ task' = [task EXCEPT ![t] = NoTask]
    /\ UNCHANGED <<user_cd, ncmd, bosses, boss_defeat_time>>
    /\ UNCHANGED frameBoss

\* defeat: "await self.db.ext.update_boss(boss)", then hp 1 and the consolation
CB_UpdateBoss(t) ==
    /\ task[t].cmd = "challenge_boss" /\ task[t].pc = "update_boss"
    /\ bosses' = UpdateBoss(bosses, task[t].boss)
    /\ task' = [task EXCEPT ![t].p.gold = @ + task[t].reward,
                            ![t].p.hp = 1,
                            ![t].p.mp = task[t].p.max_mp,
                            ![t].pc = "commit_lose"]
    /\ UNCHANGED <<player, user_cd, ncmd, last, boss_defeat_time, payouts>>
    /\ UNCHANGED frameBoss

\* defeat: "await self.db.update_player(player)"
CB_CommitLose(t) ==
    /\ task[t].cmd = "challenge_boss" /\ task[t].pc = "commit_lose"
    /\ player' = UpdatePlayer(player, task[t].user, task[t].p)
    /\ payouts' = payouts \cup {Payout(t, FALSE)}
    /\ task' = [task EXCEPT ![t].pc = "record_defeat"]
    /\ UNCHANGED <<user_cd, ncmd, last, bosses, boss_defeat_time>>
    /\ UNCHANGED frameBoss

\* defeat: extra_data['last_boss_defeat_time'], "await self.db.ext.update_user_cd(user_cd)"
CB_RecordDefeat(t) ==
    /\ task[t].cmd = "challenge_boss" /\ task[t].pc = "record_defeat"
    /\ user_cd' = [user_cd EXCEPT ![task[t].user] = task[t].cd]
    /\ boss_defeat_time' = [boss_defeat_time EXCEPT ![task[t].user] = now]
    /\ last' = Reply("challenge_boss", task[t].user, TRUE, "lose", 0, task[t].reward, 0)
    /\ task' = [task EXCEPT ![t] = NoTask]
    /\ UNCHANGED <<player, ncmd, bosses, payouts>>
    /\ UNCHANGED frameBoss

NextBoss ==
    \/ \E t \in Tasks : Dispatch(t, "none", "spawn_boss", BossBaseExp)
    \/ \E t \in Tasks : Dispatch(t, "none", "auto_spawn_boss", 0)
    \/ \E t \in Tasks, u \in Users : Dispatch(t, u, "challenge_boss", 0)
    \/ \E t \in Tasks : CB_Load(t)
    \/ \E t \in Tasks : AS_Check(t)
    \/ \E t \in Tasks : AS_GetPlayers(t)
    \/ \E t \in Tasks : SP_Check(t)
    \/ \E t \in Tasks : SP_Create(t)
    \/ \E t \in Tasks : CB_GetBoss(t)
    \/ \E t \in Tasks : CB_Battle(t)
    \/ \E t \in Tasks : CB_Defeat(t)
    \/ \E t \in Tasks : CB_CommitWin(t)
    \/ \E t \in Tasks : CB_UpdateBoss(t)
    \/ \E t \in Tasks : CB_CommitLose(t)
    \/ \E t \in Tasks : CB_RecordDefeat(t)

InitSpecBoss == InitAct /\ InitTasks /\ InitBoss /\ InitNoGift /\ InitNoBattle /\ InitNoExt /\ InitNoSvc

SpecBoss == InitSpecBoss /\ [][NextBoss]_vars

\* C7: at most one world boss is alive at any time, for any interleaving of
\* spawn_boss, auto_spawn_boss and challenge_boss.
C7_AtMostOneActiveBoss == Cardinality(ActiveBosses) <= 1

\* C6: the full stone_reward of a boss is paid to at most one challenger, and
\* every other payout for that boss is at most 30% of the stone_reward.
C6_FullRewardPaidOnce ==
    /\ \A i \in 1..Len(bosses) :
         Cardinality({x \in payouts : x.boss = i /\ x.full}) <= 1
    /\ \A x \in payouts : ~x.full => x.amount * 10 <= x.stone_reward * 3

\* C8: a write to the boss table never raises the stored hp of a boss, and a
\* defeated boss never becomes alive again.
C8_BossHpNeverIncreases ==
    [][\A i \in 1..Len(bosses) :
          /\ bosses'[i].hp <= bosses[i].hp
          /\ bosses[i].status = StatusDefeated => bosses'[i].status = StatusDefeated]_vars

\* C9: a challenger who does not defeat the boss receives
\* floor(stone_reward * (damage dealt by that challenger in that battle / max_hp) * 0.3),
\* which is at most 30% of the stone_reward.
C9_ConsolationFromOwnDamage ==
    \A x \in payouts :
        ~x.full => /\ x.amount = (x.stone_reward * x.dealt * 3) \div (x.max_hp * 10)
                   /\ x.amount * 10 <= x.stone_reward * 3

\* C40: a world boss is marked defeated only by a challenge whose battle left
\* it at 0 hp, and a boss that is still active has hp > 0, whatever the battle
\* outcome (kill, win at the round cap, loss, draw with both sides dead)
C40_DefeatedIffHpZero ==
    [][\A i \in 1..Len(bosses) :
          /\ (bosses[i].status = StatusAlive /\ bosses'[i].status = StatusDefeated)
                => \E t \in Tasks : /\ task[t].pc = "defeat"
                                    /\ task[t].boss.boss_id = i
                                    /\ task[t].boss.hp - task[t].dealt = 0
          /\ bosses'[i].status = StatusAlive => bosses'[i].hp > 0]_vars

(***************************************************************************)
(* StorageRingHandler: gift, accept, reject.  A handler runs to its end    *)
(* before the next command is looked at.                                   *)
(***************************************************************************)
\* StorageRingManager.has_item
HasItem(ring, item, count) == ring[item] >= count

\* StorageRingManager.store_item: a new name needs a free slot, stacks are uncapped
CanStore(ring, item) == ring[item] > 0 \/ Distinct(ring) < RingCapacity

StoreItem(rs, u, item, count) ==
    IF CanStore(rs[u], item) THEN [rs EXCEPT ![u][item] = @ + count] ELSE rs

\* StorageRingManager.retrieve_item
RetrieveItem(rs, u, item, count) ==
    IF HasItem(rs[u], item, count) THEN [rs EXCEPT ![u][item] = @ - count] ELSE rs

GiftTakeFromSender_Keep(rs, s, item, count) == rs

\* handle_gift_item: "await self.storage_ring_manager.retrieve_item(player, item_name, count)"
GiftTakeFromSender(rs, s, item, count) == RetrieveItem(rs, s, item, count)

\* handle_accept_gift / handle_reject_gift: the items go back to the sender
GiftReturnToSender(rs, gift) == StoreItem(rs, gift.sender_id, gift.item_name, gift.count)

GiftIssue == ncmd < MaxGiftCmds /\ ncmd' = ncmd + 1

HandleGiftItem(s, r, item, count) ==
    /\ GiftIssue
    /\ IF ~HasItem(rings[s], item, count)
       THEN /\ last' = Reply("gift_item", s, FALSE, "no_item", 0, 0, 0)
            /\ UNCHANGED giftVars
       ELSE IF r = s
       THEN /\ last' = Reply("gift_item", s, FALSE, "self", 0, 0, 0)
            /\ UNCHANGED giftVars
       ELSE /\ rings' = GiftTakeFromSender(rings, s, item, count)
            /\ pending_gifts' = [pending_gifts EXCEPT ![r] =
                   [sender_id |-> s, item_name |-> item, count |-> count]]
            /\ last' = Reply("gift_item", s, TRUE, "ok", 0, 0, 0)
    /\ UNCHANGED frameGift

HandleAcceptGift(r) ==
    LET gift == pending_gifts[r] IN
    /\ GiftIssue
    /\ IF gift = NoGift
       THEN /\ last' = Reply("accept_gift", r, FALSE, "no_gift", 0, 0, 0)
            /\ UNCHANGED giftVars
       ELSE IF CanStore(rings[r], gift.item_name)
       THEN /\ rings' = StoreItem(rings, r, gift.item_name, gift.count)
            /\ pending_gifts' = [pending_gifts EXCEPT ![r] = NoGift]
            /\ last' = Reply("accept_gift", r, TRUE, "ok", 0, 0, 0)
       ELSE /\ rings' = GiftReturnToSender(rings, gift)
            /\ pending_gifts' = [pending_gifts EXCEPT ![r] = NoGift]
            /\ last' = Reply("accept_gift", r, FALSE, "ring_full", 0, 0, 0)
    /\ UNCHANGED frameGift

HandleRejectGift(r) ==
    LET gift == pending_gifts[r] IN
    /\ GiftIssue
    /\ IF gift = NoGift
       THEN /\ last' = Reply("reject_gift", r, FALSE, "no_gift", 0, 0, 0)
            /\ UNCHANGED giftVars
       ELSE /\ rings' = GiftReturnToSender(rings, gift)
            /\ pending_gifts' = [pending_gifts EXCEPT ![r] = NoGift]
            /\ last' = Reply("reject_gift", r, TRUE, "ok", 0, 0, 0)
    /\ UNCHANGED frameGift

NextGift ==
    \/ \E s \in Users, r \in Users, item \in Items, count \in 1..MaxGiftCount :
           HandleGiftItem(s, r, item, count)
    \/ \E r \in Users : HandleAcceptGift(r)
    \/ \E r \in Users : HandleRejectGift(r)

InitSpecGift == InitAct /\ InitTasks /\ InitBoss /\ InitGift /\ InitNoBattle /\ InitNoExt /\ InitNoSvc

SpecGift == InitSpecGift /\ [][NextGift]_vars

\* items of one name held in rings and in pending gifts
RECURSIVE SumOver(_, _)
SumOver(f, us) ==
    IF us = {} THEN 0
    ELSE LET u == CHOOSE x \in us : TRUE IN f[u] + SumOver(f, us \ {u})

HeldInRings(rs, item) == SumOver([u \in Users |-> rs[u][item]], Users)

HeldPending(pg, item) ==
    SumOver([u \in Users |-> IF pg[u].item_name = item THEN pg[u].count ELSE 0], Users)

\* a step that records a pending gift has taken exactly its items out of the
\* sender's ring
GiftRecordedStep ==
    \A r \in Users :
        (pending_gifts'[r] # NoGift /\ pending_gifts'[r] # pending_gifts[r]) =>
            LET g == pending_gifts'[r] IN
            /\ rings[g.sender_id][g.item_name] >= g.count
            /\ rings'[g.sender_id][g.item_name] = rings[g.sender_id][g.item_name] - g.count

\* a ring gains items only in a step that clears the pending gift they come from
GiftReturnedStep ==
    \A u \in Users, item \in Items :
        rings'[u][item] > rings[u][item] =>
            \E r \in Users :
                /\ pending_gifts[r] # NoGift /\ pending_gifts'[r] = NoGift
                /\ pending_gifts[r].item_name = item
                /\ rings'[u][item] = rings[u][item] + pending_gifts[r].count
                /\ u \in {r, pending_gifts[r].sender_id}

\* the items of one name in rings and pending gifts together never grow
GiftNoCopyStep ==
    \A item \in Items :
        HeldInRings(rings', item) + HeldPending(pending_gifts', item)
            <= HeldInRings(rings, item) + HeldPending(pending_gifts, item)

\* C10: the items recorded in a pending gift are not also in the sender's ring:
\* the gift command takes them out of the sender's ring in the step that records
\* the pending entry, they come back only in a step that clears that entry, and
\* no step makes a copy of them.
C10_PendingGiftNotInSenderRing ==
    [][GiftRecordedStep /\ GiftReturnedStep /\ GiftNoCopyStep]_vars

\* a gift is pending and the sender's ring no longer holds the gifted items
C10_Witness ==
    \E r \in Users :
        /\ pending_gifts[r] # NoGift
        /\ last.cmd = "gift_item" /\ last.ok /\ last.user = pending_gifts[r].sender_id
        /\ rings[pending_gifts[r].sender_id][pending_gifts[r].item_name] = 0

\* the receiver r answers a pending gift by rejecting it, or by accepting it
\* while r's ring cannot hold it
GiftSentBack(r) ==
    /\ pending_gifts[r] # NoGift
    /\ \/ Handled(r, "reject_gift")
       \/ Handled(r, "accept_gift") /\ ~last'.ok

\* C11: when the receiver rejects a pending gift, or accepts it while the
\* receiver's ring cannot hold it, the pending entry is cleared and the sender's
\* ring holds the gifted items again, in the gifted quantity.
C11_RejectedGiftRestoresSender ==
    [][\A r \in Users :
          GiftSentBack(r) =>
              LET g == pending_gifts[r] IN
              /\ pending_gifts'[r] = NoGift
              /\ rings'[g.sender_id][g.item_name]
                     = rings[g.sender_id][g.item_name] + g.count]_vars

\* C35: gifted items are never lost or duplicated: whatever gift, accept_gift
\* and reject_gift commands are handled, every item taken out of a sender's ring
\* is in a pending gift, in the receiver's ring or back in the sender's ring,
\* so the number of items of each name in rings and pending gifts stays the same
C35_GiftedItemsConserved ==
    [][\A item \in Items :
          HeldInRings(rings', item) + HeldPending(pending_gifts', item)
              = HeldInRings(rings, item) + HeldPending(pending_gifts, item)]_vars

(***************************************************************************)
(* BattleManager._apply_damage                                             *)
(***************************************************************************)
ShieldAfter_Drained(shield, damage) == 0

\* the shield left: "target.shield -= damage" or "target.shield = 0"
ShieldAfter(shield, damage) ==
    IF shield > 0
    THEN IF shield >= damage THEN shield - damage ELSE 0
    ELSE shield

\* the return value: 0 when the shield takes it all, else what passes the shield
ActualDamage(shield, damage) ==
    IF shield > 0
    THEN IF shield >= damage THEN 0 ELSE damage - shield
    ELSE damage

\* "target.hp = max(0, target.hp - actual_damage)", skipped on the early return
HpAfter(shield, hp, damage) ==
    IF shield > 0 /\ shield >= damage THEN hp
    ELSE Max(0, hp - ActualDamage(shield, damage))

\* _apply_damage on a CombatStats record
ApplyDamage(c, damage) ==
    [c EXCEPT !.shield = ShieldAfter(c.shield, damage),
              !.hp = HpAfter(c.shield, c.hp, damage)]

\* one call of _apply_damage on the target the last call left
ApplyDamageCall(damage) ==
    /\ hit' = [shield |-> hit.shield_after, hp |-> hit.hp_after, damage |-> damage,
               shield_after |-> ShieldAfter(hit.shield_after, damage),
               hp_after |-> HpAfter(hit.shield_after, hit.hp_after, damage),
               returned |-> ActualDamage(hit.shield_after, damage)]
    /\ UNCHANGED <<battle, sysVars>>

\* a target with any hp and shield, not yet hit
InitHit ==
    /\ hit \in { [NoHit EXCEPT !.hp = h, !.hp_after = h,
                                !.shield = sh, !.shield_after = sh] :
                   h \in 0..MaxHitHp, sh \in 0..MaxHitShield }
    /\ battle = NoBattle

NextDamage == \E damage \in 0..MaxHitDamage : ApplyDamageCall(damage)

InitSpecDamage == InitAct /\ InitTasks /\ InitBoss /\ InitNoGift /\ InitHit /\ InitNoExt /\ InitNoSvc

SpecDamage == InitSpecDamage /\ [][NextDamage]_vars

\* C19: damage D on a target with shield S and hp H leaves shield max(0, S - D)
\* and hp max(0, H - max(0, D - S)); the hp is unchanged when D <= S; shield
\* and hp are never negative.
C19_ShieldBeforeHp ==
    /\ hit.shield_after = Max(0, hit.shield - hit.damage)
    /\ hit.hp_after = Max(0, hit.hp - Max(0, hit.damage - hit.shield))
    /\ hit.damage <= hit.shield => hit.hp_after = hit.hp
    /\ hit.shield_after >= 0 /\ hit.hp_after >= 0

\* a hit that breaks the shield and reaches the hp without killing
C19_Witness ==
    /\ hit.shield > 0 /\ hit.damage > hit.shield
    /\ hit.shield_after = 0
    /\ hit.hp_after = hit.hp - (hit.damage - hit.shield) /\ hit.hp_after > 0

(***************************************************************************)
(* BattleManager.execute_battle.  Combatants "p1" and "p2"; each equips at *)
(* most one skill.  Random numbers (hit roll, first mover at equal speed)  *)
(* are choices; a hit deals BattleHit.                                     *)
(***************************************************************************)
Sides == {"p1", "p2"}

Other(c) == IF c = "p1" THEN "p2" ELSE "p1"

\* skill configurations: lifesteal and penalty in percent, penalty -1 when the
\* skill does not declare mp_exhausted_penalty
Skills == {
    [id |-> "stun_palm", mp_cost |-> SkillMpCost, cooldown |-> SkillCooldown,
     lifesteal |-> 0, penalty |-> -1,
     effects |-> <<[type |-> "stun", value |-> 0, duration |-> StunDuration]>>],
    [id |-> "poison_mist", mp_cost |-> SkillMpCost, cooldown |-> SkillCooldown,
     lifesteal |-> 0, penalty |-> -1,
     effects |-> <<[type |-> "poison", value |-> PoisonValue, duration |-> PoisonDuration]>>],
    [id |-> "blood_drain", mp_cost |-> SkillMpCost, cooldown |-> SkillCooldown,
     lifesteal |-> DrainLifesteal, penalty |-> -1, effects |-> <<>>],
    [id |-> "blood_pact", mp_cost |-> SkillMpCost, cooldown |-> SkillCooldown,
     lifesteal |-> 0, penalty |-> 0,
     effects |-> <<[type |-> "self_damage", value |-> PactSelfDamage, duration |-> 1],
                   [type |-> "shield", value |-> PactShield, duration |-> 1]>>],
    [id |-> "soul_siphon", mp_cost |-> SkillMpCost, cooldown |-> SkillCooldown,
     lifesteal |-> 0, penalty |-> -1,
     effects |-> <<[type |-> "mp_burn", value |-> MpBurnValue, duration |-> 1],
                   [type |-> "heal", value |-> HealValue, duration |-> 1]>>] }

SkillOf(id) == CHOOSE sk \in Skills : sk.id = id

\* CombatStats.is_alive
IsAlive(c) == c.hp > 0

\* CombatStats.is_stunned
IsStunned(c) == \E i \in 1..Len(c.debuffs) : c.debuffs[i].type \in {"stun", "freeze", "paralysis"}

\* CombatStats.get_hp_percent compared with the spar threshold 0.2:
\* "second.hp <= second.max_hp * spar_threshold"
Concedes(c) == c.hp * 5 <= c.max_hp

\* _select_action: a skill is available when it is off cooldown and mp covers its cost
SkillAvailable(c) ==
    /\ c.skill # "none"
    /\ c.cooldown <= 0
    /\ c.mp >= SkillOf(c.skill).mp_cost

\* the debuff appended by _apply_skill_effect; initial and skipped record the
\* configured duration and the turns its holder has skipped under it
NewDebuff(e) ==
    [type |-> e.type, value |-> e.value, duration |-> e.duration,
     initial |-> e.duration, skipped |-> 0]

Heal_Uncapped(c, heal_amount) == [c EXCEPT !.hp = @ + heal_amount]

\* "attacker.hp = min(attacker.max_hp, attacker.hp + heal_amount)"
Heal(c, heal_amount) == [c EXCEPT !.hp = Min(c.max_hp, @ + heal_amount)]

\* "defender.mp = max(0, defender.mp - mp_burn)"
MpBurn(c, mp_burn) == [c EXCEPT !.mp = Max(0, @ - mp_burn)]

\* _apply_skill_effect, one effect; the pair <<attacker, defender>> after it
ApplySkillEffect(att, def, e) ==
    IF e.type \in {"stun", "freeze", "paralysis", "poison", "bleed", "burn"}
    THEN <<att, [def EXCEPT !.debuffs = Append(@, NewDebuff(e))]>>
    ELSE IF e.type = "shield"
    THEN <<[att EXCEPT !.shield = @ + e.value], def>>
    ELSE IF e.type = "self_damage"
    THEN <<ApplyDamage(att, e.value), def>>
    ELSE IF e.type = "heal"
    THEN <<Heal(att, e.value), def>>
    ELSE IF e.type = "mp_burn"
    THEN <<att, MpBurn(def, e.value)>>
    ELSE <<att, def>>

\* "for effect in effects: self._apply_skill_effect(...)"
RECURSIVE ApplyEffects(_, _, _)
ApplyEffects(att, def, effects) ==
    IF effects = <<>> THEN <<att, def>>
    ELSE LET r == ApplySkillEffect(att, def, Head(effects))
         IN ApplyEffects(r[1], r[2], Tail(effects))

\* _execute_skill: "heal_amount = int(actual_damage * lifesteal)"
Lifesteal(att, sk, actual_damage) ==
    IF sk.lifesteal > 0
    THEN [att EXCEPT !.hp = Min(att.max_hp, @ + (actual_damage * sk.lifesteal) \div 100)]
    ELSE att

\* _execute_skill: "penalty = skill.get('mp_exhausted_penalty', 0.5)",
\* "penalty_damage = int(attacker.max_hp * penalty * 0.1)"
MpPenaltyOf(sk) == IF sk.penalty < 0 THEN DefaultMpPenalty ELSE sk.penalty

MpExhaustedPenalty(att, sk) ==
    IF att.mp <= 0 /\ MpPenaltyOf(sk) > 0
    THEN ApplyDamage(att, (att.max_hp * MpPenaltyOf(sk)) \div 1000)
    ELSE att

\* _execute_skill; hits says whether the hit roll succeeded
ExecuteSkill(att, def, hits) ==
    LET sk   == SkillOf(att.skill)
        a0   == [att EXCEPT !.mp = @ - sk.mp_cost,
                            !.cooldown = IF sk.cooldown > 0 THEN sk.cooldown ELSE @]
        d1   == ApplyDamage(def, BattleHit)
        act  == ActualDamage(def.shield, BattleHit)
        r    == ApplyEffects(a0, d1, sk.effects)
        a2   == Lifesteal(r[1], sk, act)
    IN IF hits
       THEN <<MpExhaustedPenalty(a2, sk), r[2]>>
       ELSE <<MpExhaustedPenalty(a0, sk), def>>

\* _execute_normal_attack
ExecuteNormalAttack(att, def, hits) ==
    IF hits THEN <<att, ApplyDamage(def, BattleHit)>> ELSE <<att, def>>

IsControl(d) == d.type \in {"stun", "freeze", "paralysis"}

\* "if attacker.is_stunned(): return logs"
SkipTurn(c) ==
    [c EXCEPT !.debuffs = [i \in 1..Len(@) |->
                              IF IsControl(@[i]) THEN [@[i] EXCEPT !.skipped = @ + 1] ELSE @[i]]]

\* _execute_action: a stunned combatant does nothing, an available skill is cast,
\* else a normal attack is made
ExecuteAction(att, def, hits) ==
    IF IsStunned(att) THEN <<SkipTurn(att), def>>
    ELSE IF SkillAvailable(att) THEN ExecuteSkill(att, def, hits)
    ELSE ExecuteNormalAttack(att, def, hits)

\* _process_dot_effects: every bleed, burn or poison debuff damages its holder
RECURSIVE DotDamage(_, _)
DotDamage(c, debuffs) ==
    IF debuffs = <<>> THEN c
    ELSE DotDamage(IF Head(debuffs).type \in {"bleed", "burn", "poison"}
                   THEN ApplyDamage(c, Head(debuffs).value)
                   ELSE c,
                   Tail(debuffs))

ProcessDotEffects(c) == DotDamage(c, c.debuffs)

\* _update_effects_duration: "debuff['duration'] -= 1", kept while > 0
RECURSIVE RemainingDebuffs(_)
RemainingDebuffs(debuffs) ==
    IF debuffs = <<>> THEN <<>>
    ELSE LET d == [Head(debuffs) EXCEPT !.duration = @ - 1]
         IN IF d.duration > 0 THEN <<d>> \o RemainingDebuffs(Tail(debuffs))
            ELSE RemainingDebuffs(Tail(debuffs))

\* the control debuffs that _update_effects_duration drops
ExpiringControl(c) ==
    { i \in 1..Len(c.debuffs) : IsControl(c.debuffs[i]) /\ c.debuffs[i].duration - 1 <= 0 }

UpdateEffectsDuration(c) ==
    [c EXCEPT !.debuffs = RemainingDebuffs(@),
              !.expired = IF ExpiringControl(c) = {} THEN @
                          ELSE LET i == CHOOSE j \in ExpiringControl(c) : TRUE
                               IN [initial |-> c.debuffs[i].initial,
                                   skipped |-> c.debuffs[i].skipped]]

\* _update_cooldowns: "-= 1", deleted at <= 0 (absent reads as 0)
UpdateCooldowns(c) == [c EXCEPT !.cooldown = Max(0, @ - 1)]

LoopCondition_Inclusive(round_num) == round_num <= MAX_ROUNDS

\* "while round_num < self.MAX_ROUNDS"
LoopCondition(round_num) == round_num < MAX_ROUNDS

DotEndsBattle_Never(cs) == FALSE

\* "if not p1.is_alive(): break", "if not p2.is_alive(): break" after the DoT tick
DotEndsBattle(cs) == \E c \in Sides : ~IsAlive(cs[c])

SurrenderApplies_Always(battle_type) == TRUE

\* "if battle_type == 'spar'"
SurrenderApplies(battle_type) == battle_type = "spar"

Outcome_NoCapRule(cs, round_num) ==
    IF ~IsAlive(cs["p1"]) /\ ~IsAlive(cs["p2"])
    THEN [winner |-> "none", loser |-> "none", is_draw |-> TRUE]
    ELSE IF ~IsAlive(cs["p1"])
    THEN [winner |-> "p2", loser |-> "p1", is_draw |-> FALSE]
    ELSE IF ~IsAlive(cs["p2"])
    THEN [winner |-> "p1", loser |-> "p2", is_draw |-> FALSE]
    ELSE [winner |-> "p1", loser |-> "p2", is_draw |-> FALSE]

\* the win determination after the loop; hp / max_hp ratios are compared by
\* cross-multiplication
Outcome(cs, round_num) ==
    IF ~IsAlive(cs["p1"]) /\ ~IsAlive(cs["p2"])
    THEN [winner |-> "none", loser |-> "none", is_draw |-> TRUE]
    ELSE IF ~IsAlive(cs["p1"])
    THEN [winner |-> "p2", loser |-> "p1", is_draw |-> FALSE]
    ELSE IF ~IsAlive(cs["p2"])
    THEN [winner |-> "p1", loser |-> "p2", is_draw |-> FALSE]
    ELSE IF round_num >= MAX_ROUNDS
    THEN IF cs["p1"].hp * cs["p2"].max_hp > cs["p2"].hp * cs["p1"].max_hp
         THEN [winner |-> "p1", loser |-> "p2", is_draw |-> FALSE]
         ELSE IF cs["p2"].hp * cs["p1"].max_hp > cs["p1"].hp * cs["p2"].max_hp
         THEN [winner |-> "p2", loser |-> "p1", is_draw |-> FALSE]
         ELSE [winner |-> "none", loser |-> "none", is_draw |-> TRUE]
    ELSE [winner |-> "none", loser |-> "none", is_draw |-> FALSE]

\* top of the loop: round counter, DoT tick, death by DoT, effect durations,
\* turn order (equal speeds: "random.random() < 0.5")
BeginRound ==
    /\ battle.pc = "loop"
    /\ LoopCondition(battle.round_num)
    /\ LET dot == [c \in Sides |-> ProcessDotEffects(battle.cs[c])]
       IN IF DotEndsBattle(dot)
          THEN battle' = [battle EXCEPT !.round_num = @ + 1, !.cs = dot,
                                        !.pc = "judge", !.exit = "dot"]
          ELSE \E first \in Sides :
                  battle' = [battle EXCEPT !.round_num = @ + 1,
                                           !.cs = [c \in Sides |-> UpdateEffectsDuration(dot[c])],
                                           !.first = first, !.pc = "first"]
    /\ UNCHANGED <<hit, sysVars>>

\* the loop condition fails
LoopExit ==
    /\ battle.pc = "loop"
    /\ ~LoopCondition(battle.round_num)
    /\ battle' = [battle EXCEPT !.pc = "judge", !.exit = "cap"]
    /\ UNCHANGED <<hit, sysVars>>

\* att's turn is a skill cast
Casts(att, def) ==
    IsAlive(att) /\ IsAlive(def) /\ ~IsStunned(att) /\ SkillAvailable(att)

\* one half of a round: att acts if both are alive, then the spar concession
\* and the defeat check on def; next is where the round goes on; cast_round
\* records the round of att's latest cast
HalfRound(att, def, next) ==
    \E hits \in BOOLEAN :
        LET r   == IF IsAlive(battle.cs[att]) /\ IsAlive(battle.cs[def])
                   THEN ExecuteAction(battle.cs[att], battle.cs[def], hits)
                   ELSE <<battle.cs[att], battle.cs[def]>>
            a1  == IF Casts(battle.cs[att], battle.cs[def])
                   THEN [r[1] EXCEPT !.cast_round = battle.round_num]
                   ELSE r[1]
            cs1 == [battle.cs EXCEPT ![att] = a1, ![def] = r[2]]
        IN IF SurrenderApplies(battle.battle_type) /\ Concedes(cs1[def])
           THEN battle' = [battle EXCEPT !.cs = [cs1 EXCEPT ![def].hp = 0],
                                         !.conceded = cs1[def].hp,
                                         !.pc = "judge", !.exit = "surrender"]
           ELSE IF ~IsAlive(cs1[def])
           THEN battle' = [battle EXCEPT !.cs = cs1, !.pc = "judge", !.exit = "defeated"]
           ELSE IF next = "second"
           THEN battle' = [battle EXCEPT !.cs = cs1, !.pc = "second"]
           ELSE battle' = [battle EXCEPT !.cs = [c \in Sides |-> UpdateCooldowns(cs1[c])],
                                         !.pc = "loop"]

ActFirst ==
    /\ battle.pc = "first"
    /\ HalfRound(battle.first, Other(battle.first), "second")
    /\ UNCHANGED <<hit, sysVars>>

ActSecond ==
    /\ battle.pc = "second"
    /\ HalfRound(Other(battle.first), battle.first, "loop")
    /\ UNCHANGED <<hit, sysVars>>

Judge ==
    /\ battle.pc = "judge"
    /\ LET o == Outcome(battle.cs, battle.round_num)
       IN battle' = [battle EXCEPT !.winner = o.winner, !.loser = o.loser,
                                   !.is_draw = o.is_draw, !.pc = "done"]
    /\ UNCHANGED <<hit, sysVars>>

\* prepare_combat_stats: full hp and mp, no shield, no effects
NewStats(skill) ==
    [NoStats EXCEPT !.hp = BattleMaxHp, !.max_hp = BattleMaxHp,
                    !.mp = BattleMaxMp, !.max_mp = BattleMaxMp, !.skill = skill]

InitBattle ==
    /\ \E bt \in {"spar", "duel"}, sk \in {s.id : s \in Skills} \cup {"none"} :
          battle = [NoBattle EXCEPT !.battle_type = bt, !.pc = "loop",
                                    !.cs = [c \in Sides |-> IF c = "p1" THEN NewStats(sk)
                                                            ELSE NewStats("none")]]
    /\ hit = NoHit

NextBattle == BeginRound \/ LoopExit \/ ActFirst \/ ActSecond \/ Judge

InitSpecBattle == InitAct /\ InitTasks /\ InitBoss /\ InitNoGift /\ InitBattle /\ InitNoExt /\ InitNoSvc

SpecBattle == InitSpecBattle /\ [][NextBattle]_vars

\* C12: every battle terminates after at most MAX_ROUNDS rounds: the round
\* counter never passes the cap, and once the loop is left no round is begun
C12_AtMostMaxRounds ==
    /\ battle.round_num <= MAX_ROUNDS
    /\ battle.pc \in {"judge", "done"} => ~ENABLED BeginRound

C12_Witness ==
    /\ battle.pc = "done"
    /\ battle.exit = "cap"
    /\ battle.round_num = MAX_ROUNDS

\* C13: the outcome follows the three-case rule (both dead: draw; one dead: the
\* survivor wins; round cap with both alive: the higher hp / max_hp ratio wins,
\* equal ratios draw), and a battle has either one winner and one different
\* loser or is a draw without winner and loser
C13_OutcomeRule ==
    battle.pc = "done" =>
        LET p1 == battle.cs["p1"]
            p2 == battle.cs["p2"]
            Wins(w) == /\ battle.winner = w
                       /\ battle.loser = Other(w)
                       /\ ~battle.is_draw
            Draw    == /\ battle.is_draw
                       /\ battle.winner = "none"
                       /\ battle.loser = "none"
        IN /\ (p1.hp <= 0 /\ p2.hp <= 0) => Draw
           /\ (p1.hp <= 0 /\ p2.hp > 0) => Wins("p2")
           /\ (p2.hp <= 0 /\ p1.hp > 0) => Wins("p1")
           /\ (p1.hp > 0 /\ p2.hp > 0) =>
                 /\ battle.round_num = MAX_ROUNDS
                 /\ p1.hp * p2.max_hp > p2.hp * p1.max_hp => Wins("p1")
                 /\ p2.hp * p1.max_hp > p1.hp * p2.max_hp => Wins("p2")
                 /\ p1.hp * p2.max_hp = p2.hp * p1.max_hp => Draw
           /\ Draw \/ Wins("p1") \/ Wins("p2")

C13_Witness ==
    /\ battle.pc = "done"
    /\ battle.exit = "cap"
    /\ battle.cs["p1"].hp > 0
    /\ battle.cs["p2"].hp > battle.cs["p1"].hp
    /\ battle.winner = "p2"
    /\ battle.loser = "p1"

\* the concession test applies to hp after an action of a spar
ActionCompletes ==
    /\ battle.battle_type = "spar"
    /\ battle.pc \in {"first", "second"}
    /\ \A c \in Sides : IsAlive(battle.cs[c])

\* C14: in a spar, whenever an action completes and either side, the acting
\* side included, is below 20% of its max_hp, that side concedes (its hp is
\* set to 0) and the battle ends before any further action
C14_BelowThresholdConcedes ==
    [][ActionCompletes =>
          \A c \in Sides :
              battle'.cs[c].hp * 5 < battle'.cs[c].max_hp =>
                  /\ battle'.cs[c].hp = 0
                  /\ ~(\A d \in Sides : IsAlive(battle'.cs[d]))]_vars

\* C15: a side concedes only when its hp is strictly below 20% of max_hp; at
\* exactly 20% it keeps fighting
C15_ConcedesOnlyStrictlyBelow ==
    battle.exit = "surrender" =>
        \E c \in Sides : battle.conceded * 5 < battle.cs[c].max_hp /\ battle.cs[c].hp = 0

\* C16: in a duel the concession threshold is not applied: nobody concedes,
\* and the battle ends only by a death or at the round cap
C16_DuelNoConcession ==
    battle.battle_type = "duel" =>
        /\ battle.exit # "surrender"
        /\ battle.conceded = -1
        /\ battle.pc \in {"judge", "done"} =>
              \/ \E c \in Sides : ~IsAlive(battle.cs[c])
              \/ battle.round_num >= MAX_ROUNDS

C16_Witness ==
    /\ battle.battle_type = "duel"
    /\ battle.pc = "loop"
    /\ battle.round_num > 0
    /\ \E c \in Sides : IsAlive(battle.cs[c]) /\ battle.cs[c].hp * 5 < battle.cs[c].max_hp

\* C17: when the DoT tick at the start of a round leaves a side dead the battle
\* ends at once: no duration is decremented, nobody acts, no cooldown ticks,
\* and no later round is begun
C17_DotDeathEndsBattle ==
    [][/\ (battle.pc = "loop" /\ battle'.round_num = battle.round_num + 1
              /\ \E c \in Sides : ~IsAlive(battle'.cs[c]))
          => /\ battle'.pc = "judge"
             /\ \A c \in Sides :
                   /\ battle'.cs[c].debuffs = battle.cs[c].debuffs
                   /\ battle'.cs[c].cooldown = battle.cs[c].cooldown
                   /\ battle'.cs[c].mp = battle.cs[c].mp
       /\ battle.exit = "dot"
          => /\ battle'.cs = battle.cs
             /\ battle'.round_num = battle.round_num
             /\ battle'.pc = "done"]_vars

C17_Witness ==
    /\ battle.pc = "done"
    /\ battle.exit = "dot"
    /\ \E c \in Sides :
          /\ ~IsAlive(battle.cs[c])
          /\ \E i \in 1..Len(battle.cs[c].debuffs) :
                battle.cs[c].debuffs[i].duration = battle.cs[c].debuffs[i].initial
    /\ battle.cs["p1"].cooldown > 0

\* C18: a stun, freeze or paralysis of duration d makes the defender skip
\* exactly d of its own turns, whether the caster acted first or second
C18_ControlSkipsDurationTurns ==
    \A c \in Sides :
        battle.cs[c].expired # NoExpired =>
            battle.cs[c].expired.skipped = battle.cs[c].expired.initial

\* C20: _apply_damage returns exactly the amount by which the target's hp went
\* down, never more than the hp the target had
C20_ReturnsHpDecrease ==
    /\ hit.returned = hit.hp - hit.hp_after
    /\ hit.returned <= hit.hp

\* the side whose turn the next half round is
Acting(a) ==
    \/ battle.pc = "first" /\ a = battle.first
    \/ battle.pc = "second" /\ a = Other(battle.first)

\* C21: the mp-exhaustion self-damage is taken only when the skill declares
\* mp_exhausted_penalty: a caster whose skill does not declare it (and has no
\* self_damage effect) never loses hp by its own turn
C21_NoPenaltyUnlessDeclared ==
    [][\A a \in Sides :
          (/\ Acting(a)
           /\ battle.cs[a].skill # "none"
           /\ SkillOf(battle.cs[a].skill).penalty < 0)
          => battle'.cs[a].hp >= battle.cs[a].hp]_vars

\* C22: throughout a battle both combatants keep 0 <= hp <= max_hp,
\* 0 <= mp <= max_mp and shield >= 0
C22_StatsWithinBounds ==
    battle.pc # "none" =>
        \A c \in Sides :
            /\ 0 <= battle.cs[c].hp /\ battle.cs[c].hp <= battle.cs[c].max_hp
            /\ 0 <= battle.cs[c].mp /\ battle.cs[c].mp <= battle.cs[c].max_mp
            /\ battle.cs[c].shield >= 0

\* a heal at nearly full hp and an mp_burn above the remaining mp have landed
C22_Witness ==
    /\ battle.pc = "second"
    /\ battle.first = "p1"
    /\ battle.cs["p1"].skill = "soul_siphon"
    /\ battle.cs["p1"].mp = 0
    /\ battle.cs["p1"].hp = battle.cs["p1"].max_hp - 1
    /\ battle.cs["p2"].mp = 0

\* C37: a combatant that cast a skill of cooldown c >= 1 in round r does not
\* cast it again in any of the rounds r+1 .. r+c
C37_NoRecastWithinCooldown ==
    \A a \in Sides :
        (/\ Acting(a)
         /\ Casts(battle.cs[a], battle.cs[Other(a)])
         /\ battle.cs[a].cast_round > 0
         /\ SkillOf(battle.cs[a].skill).cooldown >= 1)
        => battle.round_num > battle.cs[a].cast_round + SkillOf(battle.cs[a].skill).cooldown
    /\ battle.cs["p2"].max_mp < MpBurnValue

(***************************************************************************)
(* BreakthroughManager.execute_breakthrough on one player.  The success    *)
(* roll and the death roll are choices.                                    *)
(***************************************************************************)
\* config_manager.level_data[i]
LevelData(i) ==
    [exp_needed |-> i * BtExpNeeded,
     breakthrough_lifespan_gain |-> i * BtGain + 5,
     breakthrough_spiritual_qi_gain |-> i * BtGain + 4,
     breakthrough_mental_power_gain |-> i * BtGain + 3,
     breakthrough_physical_damage_gain |-> i * BtGain + 2,
     breakthrough_magic_damage_gain |-> i * BtGain + 1,
     breakthrough_physical_defense_gain |-> i * BtGain,
     breakthrough_magic_defense_gain |-> i * BtGain + 6]

CheckBreakthroughRequirements_NoExpCheck(p) == p.level_index < LevelCount - 1

\* check_breakthrough_requirements
CheckBreakthroughRequirements(p) ==
    /\ ~(p.level_index >= LevelCount - 1)
    /\ ~(p.experience < LevelData(p.level_index + 1).exp_needed)

\* the success branch: realm, attribute gains, spiritual qi refilled
BreakthroughSuccess(p) ==
    LET d == LevelData(p.level_index + 1)
        q == [p EXCEPT !.level_index = p.level_index + 1,
                       !.lifespan = @ + d.breakthrough_lifespan_gain,
                       !.physical_damage = @ + d.breakthrough_physical_damage_gain,
                       !.magic_damage = @ + d.breakthrough_magic_damage_gain,
                       !.physical_defense = @ + d.breakthrough_physical_defense_gain,
                       !.magic_defense = @ + d.breakthrough_magic_defense_gain,
                       !.max_spiritual_qi = @ + d.breakthrough_spiritual_qi_gain,
                       !.mental_power = @ + d.breakthrough_mental_power_gain]
    IN [q EXCEPT !.spiritual_qi = q.max_spiritual_qi]

ExpPenalty_None(experience) == 0

\* "exp_penalty = int(player.experience * 0.1)"
ExpPenalty(experience) == experience \div 10

\* the survived failure: "player.experience = max(0, player.experience - exp_penalty)"
BreakthroughFailure(p) ==
    [p EXCEPT !.experience = Max(0, p.experience - ExpPenalty(p.experience))]

\* PillManager.handle_resurrection: with the token, consume it and halve the
\* combat attributes
CanResurrect(p) == p.has_resurrection_pill

HandleResurrection(p) ==
    [p EXCEPT !.has_resurrection_pill = FALSE,
              !.physical_damage = @ \div 2,
              !.magic_damage = @ \div 2,
              !.physical_defense = @ \div 2,
              !.magic_defense = @ \div 2,
              !.mental_power = @ \div 2]

AfterDeath_AlwaysDeleted(b, resurrected) ==
    [b EXCEPT !.exists = FALSE, !.outcome = "died"]

\* "if died:": resurrection keeps the player, else db.delete_player
AfterDeath(b, resurrected) ==
    IF resurrected
    THEN [b EXCEPT !.player = HandleResurrection(b.player),
                   !.saved = HandleResurrection(b.player),
                   !.outcome = "resurrected"]
    ELSE [b EXCEPT !.exists = FALSE, !.outcome = "died"]

ExecuteBreakthrough ==
    /\ breakthrough.exists
    /\ breakthrough.calls < MaxBtCalls
    /\ \E breakthrough_success \in BOOLEAN, died \in BOOLEAN :
          LET b == [breakthrough EXCEPT !.calls = @ + 1, !.before = breakthrough.player]
              p == breakthrough.player
          IN IF ~CheckBreakthroughRequirements(p)
             THEN breakthrough' = [b EXCEPT !.outcome = "precondition"]
             ELSE IF breakthrough_success
             THEN breakthrough' = [b EXCEPT !.player = BreakthroughSuccess(p),
                                            !.saved = BreakthroughSuccess(p),
                                            !.outcome = "success"]
             ELSE IF died
             THEN breakthrough' = AfterDeath(b, CanResurrect(p))
             ELSE breakthrough' = [b EXCEPT !.player = BreakthroughFailure(p),
                                            !.saved = BreakthroughFailure(p),
                                            !.outcome = "failed"]
    /\ UNCHANGED <<now, player, user_cd, route_cooldowns, ncmd, last, task, bossVars,
                   giftVars, battleVars, combat_cooldowns, battle_result, svcVars>>

\* the player comes out of other commands with any hp, mp and experience
InitBreakthrough ==
    /\ \E lv \in 0..(LevelCount - 1), ex \in {0, BtExpNeeded - 1, BtExpNeeded, 2 * BtExpNeeded + 5},
          h \in {1, BtMaxPool}, m \in {0, BtMaxPool}, tok \in BOOLEAN :
          LET p == [NoSeeker EXCEPT !.level_index = lv, !.experience = ex,
                                    !.lifespan = BtAttribute,
                                    !.physical_damage = BtAttribute,
                                    !.magic_damage = BtAttribute + 1,
                                    !.physical_defense = BtAttribute + 2,
                                    !.magic_defense = BtAttribute + 3,
                                    !.mental_power = BtAttribute + 4,
                                    !.spiritual_qi = m, !.max_spiritual_qi = BtMaxPool,
                                    !.hp = h, !.max_hp = BtMaxPool,
                                    !.mp = m, !.max_mp = BtMaxPool,
                                    !.has_resurrection_pill = tok]
          IN breakthrough = [NoBreakthrough EXCEPT !.player = p, !.saved = p,
                                                   !.exists = TRUE]
    /\ InitNoCombat

NextBreakthrough == ExecuteBreakthrough

InitSpecBreakthrough ==
    InitAct /\ InitTasks /\ InitBoss /\ InitNoGift /\ InitNoBattle /\ InitBreakthrough /\ InitNoSvc

SpecBreakthrough == InitSpecBreakthrough /\ [][NextBreakthrough]_vars

Attempted == breakthrough'.calls = breakthrough.calls + 1

\* C23: an attempt at the maximum realm, or with experience below the next
\* realm's requirement, fails on the precondition and mutates nothing: realm and
\* experience unchanged, token kept, player not deleted
C23_PreconditionFailureMutatesNothing ==
    [][(/\ Attempted
        /\ \/ breakthrough.player.level_index = LevelCount - 1
           \/ breakthrough.player.experience
                  < LevelData(breakthrough.player.level_index + 1).exp_needed)
       => /\ breakthrough'.outcome = "precondition"
          /\ breakthrough'.player = breakthrough.player
          /\ breakthrough'.saved = breakthrough.saved
          /\ breakthrough'.exists]_vars

C23_Witness ==
    /\ breakthrough.outcome = "precondition"
    /\ breakthrough.player.level_index < LevelCount - 1
    /\ breakthrough.player.experience = BtExpNeeded - 1
    /\ breakthrough.player.has_resurrection_pill

\* C24: after a successful breakthrough the realm is exactly one higher, the
\* new realm's gains have been added, and hp, mp and the spiritual pool each
\* equal their maximum
C24_SuccessRaisesRealmAndRefills ==
    breakthrough.outcome = "success" =>
        LET p == breakthrough.player
            o == breakthrough.before
            d == LevelData(p.level_index)
        IN /\ p.level_index = o.level_index + 1
           /\ p.physical_damage = o.physical_damage + d.breakthrough_physical_damage_gain
           /\ p.magic_damage = o.magic_damage + d.breakthrough_magic_damage_gain
           /\ p.physical_defense = o.physical_defense + d.breakthrough_physical_defense_gain
           /\ p.magic_defense = o.magic_defense + d.breakthrough_magic_defense_gain
           /\ p.mental_power = o.mental_power + d.breakthrough_mental_power_gain
           /\ p.max_spiritual_qi = o.max_spiritual_qi + d.breakthrough_spiritual_qi_gain
           /\ p.spiritual_qi = p.max_spiritual_qi
           /\ p.hp = p.max_hp
           /\ p.mp = p.max_mp

\* C25: a failed breakthrough that the player survives deducts 10% of the
\* current experience, leaves the realm alone, keeps experience non-negative
\* and keeps the player record
C25_SurvivedFailureCostsTenth ==
    breakthrough.outcome = "failed" =>
        /\ breakthrough.player.experience
               = breakthrough.before.experience - breakthrough.before.experience \div 10
        /\ breakthrough.player.experience >= 0
        /\ breakthrough.player.level_index = breakthrough.before.level_index
        /\ breakthrough.exists
        /\ breakthrough.saved = breakthrough.player

C25_Witness ==
    /\ breakthrough.outcome = "failed"
    /\ breakthrough.before.experience = 2 * BtExpNeeded + 5
    /\ breakthrough.player.experience < breakthrough.before.experience

\* C26: a failed breakthrough with a successful death roll consumes the
\* resurrection token when the player holds one, halves every combat attribute
\* by integer division and keeps the player and the realm; without a token the
\* player is deleted
C26_DeathUsesTokenOrDeletes ==
    LET p == breakthrough.player
        o == breakthrough.before
    IN /\ breakthrough.outcome \in {"resurrected", "died"} =>
              (breakthrough.outcome = "resurrected" <=> o.has_resurrection_pill)
       /\ breakthrough.outcome = "resurrected" =>
              /\ ~p.has_resurrection_pill
              /\ p.physical_damage = o.physical_damage \div 2
              /\ p.magic_damage = o.magic_damage \div 2
              /\ p.physical_defense = o.physical_defense \div 2
              /\ p.magic_defense = o.magic_defense \div 2
              /\ p.mental_power = o.mental_power \div 2
              /\ p.level_index = o.level_index
              /\ breakthrough.exists
       /\ breakthrough.outcome = "died" => ~breakthrough.exists

C26_Witness ==
    /\ breakthrough.outcome = "resurrected"
    /\ breakthrough.before.has_resurrection_pill
    /\ breakthrough.player.physical_damage * 2 < breakthrough.before.physical_damage
    /\ breakthrough.exists

(***************************************************************************)
(* CombatHandlers.handle_duel / handle_spar, one command at a time.  What  *)
(* execute_battle returns is a choice of the two final hp values.          *)
(***************************************************************************)
CombatAllowed_InitiatorOnly(user_cd_row, target_cd_row) == ~CdBusy(user_cd_row)

\* "if user_cd and user_cd.type != UserStatus.IDLE", the same for target_cd
CombatAllowed(user_cd_row, target_cd_row) == ~CdBusy(user_cd_row) /\ ~CdBusy(target_cd_row)

\* "player1.hp < player1.max_hp * 0.3"
DuelHpTooLow(row) == row.hp * 10 < row.max_hp * 3

OnCooldown_Never(last_time, t, cooldown) == FALSE

\* "last_duel and (now - last_duel) < DUEL_COOLDOWN"
OnCooldown(last_time, t, cooldown) == last_time # 0 /\ (t - last_time) < cooldown

StoredDuelHp_Rounded(row, final_hp, max_hp) ==
    Max(1, (2 * row.max_hp * final_hp + max_hp) \div (2 * max_hp))

\* "hp_ratio = final_hp / max_hp if max_hp > 0 else 1.0",
\* "player.hp = max(1, int(player.max_hp * hp_ratio))"
StoredDuelHp(row, final_hp, max_hp) ==
    IF max_hp > 0 THEN Max(1, (row.max_hp * final_hp) \div max_hp) ELSE Max(1, row.max_hp)

\* _apply_duel_damage
ApplyDuelDamage(row, final_hp, max_hp) ==
    [row EXCEPT !.hp = StoredDuelHp(row, final_hp, max_hp), !.mp = row.max_mp]

\* _restore_mp_after_battle
RestoreMpAfterBattle(row) == [row EXCEPT !.mp = row.max_mp]

\* _update_combat_cooldown
UpdateCombatCooldown(cds, u, combat_type, t) ==
    IF combat_type = "duel"
    THEN [cds EXCEPT ![u].last_duel_time = t]
    ELSE [cds EXCEPT ![u].last_spar_time = t]

\* the hp values execute_battle may report for a combatant: dead, or hurt
FinalHps == {0, CombatPartialHp, CombatBaseHp}

CombatRejected(cmd, u, target, why) ==
    /\ last' = Reply(cmd, u, FALSE, why, 0, 0, 0)
    /\ battle_result' = [NoBattleResult EXCEPT !.cmd = cmd, !.user = u, !.target = target]
    /\ UNCHANGED <<player, combat_cooldowns>>

CombatRan(cmd, u, target, f1, f2) ==
    /\ last' = Reply(cmd, u, TRUE, "ok", 0, 0, 0)
    /\ battle_result' = [cmd |-> cmd, user |-> u, target |-> target, ran |-> TRUE,
                         p1_final |-> [hp |-> f1, max_hp |-> CombatBaseHp],
                         p2_final |-> [hp |-> f2, max_hp |-> CombatBaseHp]]

HandleDuel(u, target) ==
    /\ Issue
    /\ IF u = target
       THEN CombatRejected("duel", u, target, "self")
       ELSE IF ~CombatAllowed(user_cd[u], user_cd[target])
       THEN CombatRejected("duel", u, target, "busy")
       ELSE IF DuelHpTooLow(player[u]) \/ DuelHpTooLow(player[target])
       THEN CombatRejected("duel", u, target, "low_hp")
       ELSE IF OnCooldown(combat_cooldowns[u].last_duel_time, now, DUEL_COOLDOWN)
       THEN CombatRejected("duel", u, target, "cooldown")
       ELSE \E f1 \in FinalHps, f2 \in FinalHps :
               /\ CombatRan("duel", u, target, f1, f2)
               /\ player' = [player EXCEPT
                      ![u] = ApplyDuelDamage(@, f1, CombatBaseHp),
                      ![target] = ApplyDuelDamage(@, f2, CombatBaseHp)]
               /\ combat_cooldowns' = UpdateCombatCooldown(combat_cooldowns, u, "duel", now)
    /\ UNCHANGED <<now, user_cd, route_cooldowns, task, bossVars, giftVars, battleVars,
                   breakthrough, svcVars>>

HandleSpar(u, target) ==
    /\ Issue
    /\ IF u = target
       THEN CombatRejected("spar", u, target, "self")
       ELSE IF ~CombatAllowed(user_cd[u], user_cd[target])
       THEN CombatRejected("spar", u, target, "busy")
       ELSE IF OnCooldown(combat_cooldowns[u].last_spar_time, now, SPAR_COOLDOWN)
       THEN CombatRejected("spar", u, target, "cooldown")
       ELSE \E f1 \in FinalHps, f2 \in FinalHps :
               /\ CombatRan("spar", u, target, f1, f2)
               /\ player' = [player EXCEPT ![u] = RestoreMpAfterBattle(@),
                                           ![target] = RestoreMpAfterBattle(@)]
               /\ combat_cooldowns' = UpdateCombatCooldown(combat_cooldowns, u, "spar", now)
    /\ UNCHANGED <<now, user_cd, route_cooldowns, task, bossVars, giftVars, battleVars,
                   breakthrough, svcVars>>

CombatTick ==
    /\ now + CombatTickStep <= MaxCombatTime
    /\ now' = now + CombatTickStep
    /\ UNCHANGED <<player, user_cd, route_cooldowns, ncmd, last, task, bossVars, giftVars,
                   battleVars, extVars, svcVars>>

\* players come to a fight with any hp, their mp spent
InitCombat ==
    /\ now = CombatTickStep
    /\ player \in [Users -> { [BlankRow EXCEPT !.experience = CfgExperience,
                                               !.hp = h, !.max_hp = CfgMaxHp,
                                               !.mp = 0, !.max_mp = CfgMaxMp,
                                               !.level_index = CfgLevelIndex] :
                                  h \in {(CfgMaxHp * 3) \div 10 - 1, CfgMaxHp} }]
    /\ user_cd = [u \in Users |-> NoCd]
    /\ route_cooldowns = [u \in Users |-> 0]
    /\ ncmd = 0
    /\ last = NoReply

NextCombat ==
    \/ CombatTick
    \/ \E u \in Users : StartCultivation(u)
    \/ \E u \in Users, target \in Users : HandleDuel(u, target)
    \/ \E u \in Users, target \in Users : HandleSpar(u, target)

InitSpecCombat ==
    InitCombat /\ InitTasks /\ InitBoss /\ InitNoGift /\ InitNoBattle /\ InitNoExt /\ InitNoSvc

SpecCombat == InitSpecCombat /\ [][NextCombat]_vars

\* a duel or spar that was carried out, and its two parties
Fought(cmd, u, t) ==
    /\ Handled(u, cmd)
    /\ last'.ok
    /\ battle_result'.target = t

SparKeepsStoredHp ==
    \A u \in Users, t \in Users :
        Fought("spar", u, t) =>
            /\ \A x \in Users :
                  /\ player'[x].hp = player[x].hp
                  /\ player'[x].experience = player[x].experience
                  /\ player'[x].gold = player[x].gold
            /\ player'[u].mp = player[u].max_mp
            /\ player'[t].mp = player[t].max_mp

\* C27 as stated: after a duel each participant's stored hp is
\* max(1, round(max_hp * final_hp_ratio)), never 0; after a spar nobody's
\* stored hp, experience or gold changes and only mp is refilled
C27_DuelStoresRoundedHp ==
    [][/\ \A u \in Users, t \in Users :
             Fought("duel", u, t) =>
                 /\ player'[u].hp = StoredDuelHp_Rounded(player[u], battle_result'.p1_final.hp,
                                                         battle_result'.p1_final.max_hp)
                 /\ player'[t].hp = StoredDuelHp_Rounded(player[t], battle_result'.p2_final.hp,
                                                         battle_result'.p2_final.max_hp)
                 /\ player'[u].hp >= 1 /\ player'[t].hp >= 1
       /\ SparKeepsStoredHp]_vars

\* C27 amended: after a duel each participant's stored hp is
\* max(1, floor(max_hp * final_hp / battle max_hp)), never 0, and mp is full;
\* after a spar nobody's stored hp, experience or gold changes and only the
\* two parties' mp is refilled
C27_DuelStoresTruncatedHp ==
    [][/\ \A u \in Users, t \in Users :
             Fought("duel", u, t) =>
                 /\ player'[u].hp = Max(1, (player[u].max_hp * battle_result'.p1_final.hp)
                                               \div battle_result'.p1_final.max_hp)
                 /\ player'[t].hp = Max(1, (player[t].max_hp * battle_result'.p2_final.hp)
                                               \div battle_result'.p2_final.max_hp)
                 /\ player'[u].hp >= 1 /\ player'[t].hp >= 1
                 /\ player'[u].mp = player[u].max_mp
                 /\ player'[t].mp = player[t].max_mp
       /\ SparKeepsStoredHp]_vars

C27_Witness ==
    /\ battle_result.cmd = "duel"
    /\ battle_result.ran
    /\ battle_result.p1_final.hp = CombatPartialHp
    /\ battle_result.p2_final.hp = 0
    /\ player[battle_result.user].hp = (CfgMaxHp * CombatPartialHp) \div CombatBaseHp
    /\ player[battle_result.target].hp = 1

\* C28: a duel or spar is carried out only when initiator and target are both
\* idle; if either is busy the command is rejected, no battle is run and no
\* player's hp, mp or cooldown changes
C28_CombatRequiresBothIdle ==
    [][\A u \in Users, t \in Users :
          (/\ Handled(u, "duel") \/ Handled(u, "spar")
           /\ battle_result'.target = t
           /\ CdBusy(user_cd[u]) \/ CdBusy(user_cd[t]))
          => /\ ~last'.ok
             /\ ~battle_result'.ran
             /\ player' = player
             /\ combat_cooldowns' = combat_cooldowns
             /\ user_cd' = user_cd]_vars

C28_Witness ==
    /\ last.cmd = "duel"
    /\ last.why = "busy"
    /\ ~battle_result.ran
    /\ ~CdBusy(user_cd[last.user])
    /\ user_cd[battle_result.target].type = "CULTIVATING"

CultLevels == {0, LevelsPerRealm - 1, LevelsPerRealm, 2 * LevelsPerRealm}

\* the clock moves by one short step in the first hour and by long steps after
CultTick ==
    /\ \E step \in {CultShortStep, CultLongStep} :
          /\ step = CultShortStep => now < 2 * CultShortStep
          /\ now + step <= MaxCultTime
          /\ now' = now + step
    /\ UNCHANGED <<player, user_cd, route_cooldowns, ncmd, last>>
    /\ UNCHANGED frameAct

InitCult ==
    /\ now = CultShortStep
    /\ player \in [Users -> { [state |-> "idle", cultivation_start_time |-> 0,
                               experience |-> CfgExperience, gold |-> 0, items |-> 0,
                               hp |-> 1, max_hp |-> CfgMaxHp,
                               mp |-> 0, max_mp |-> CfgMaxMp,
                               level_index |-> lv] : lv \in CultLevels }]
    /\ user_cd = [u \in Users |-> NoCd]
    /\ route_cooldowns = [u \in Users |-> 0]
    /\ ncmd = 0
    /\ last = NoReply

NextCult ==
    \/ CultTick
    \/ \E u \in Users : StartCultivation(u)
    \/ \E u \in Users : EndCultivation(u)

InitSpecCult == InitCult /\ InitTasks /\ InitBoss /\ InitNoGift /\ InitNoBattle /\ InitNoExt /\ InitNoSvc

SpecCult == InitSpecCult /\ [][NextCult]_vars

\* C30: when cultivation is finished, the time that counts for experience and
\* for hp/mp recovery is min(elapsed minutes, 24h + (level_index div 9) * 6h);
\* minutes beyond that cap yield nothing
C30_EffectiveTimeIsCapped ==
    [][\A u \in Users :
          (Handled(u, "end_cultivation") /\ last'.ok) =>
             LET p == player[u]
                 elapsed == (now - p.cultivation_start_time) \div 60
                 cap == 1440 + (p.level_index \div 9) * 360
                 counted == IF elapsed < cap THEN elapsed ELSE cap
             IN /\ last'.elapsed = elapsed
                /\ last'.basis = counted
                /\ last'.exp = CultivationExp(counted)
                /\ player'[u].experience = p.experience + CultivationExp(counted)
                /\ player'[u].hp = Min(p.max_hp, p.hp + (p.max_hp * Min(1000, counted * 5)) \div 1000)
                /\ player'[u].mp = Min(p.max_mp, p.mp + (p.max_mp * Min(1000, counted * 5)) \div 1000)]_vars

\* a player of the second realm ends a seclusion longer than 30 hours
C30_Witness ==
    /\ last.cmd = "end_cultivation"
    /\ last.ok
    /\ player[last.user].level_index = LevelsPerRealm
    /\ last.elapsed > BaseCultivationMinutes + RealmBonusMinutes
    /\ last.basis = BaseCultivationMinutes + RealmBonusMinutes
    /\ last.exp = CultivationExp(BaseCultivationMinutes + RealmBonusMinutes)

(***************************************************************************)
(* Impart challenge: ImpartPkManager.challenge_impart                      *)
(***************************************************************************)
\* execute_battle names the winner by CombatStats.user_id, or None for a draw
NoWinnerId == "none"
BattleWinners(attacker, defender) == {attacker, defender, NoWinnerId}

\* the test challenge_impart makes on the battle result
AttackerWins(winner) == winner = "p1"

\* random.uniform(0.01, 0.05), in thousandths
ImpartGains == {10, 30, 50}
ImpartFull == 1000

\* int(attacker.experience * 0.01), then max(0, experience - exp_loss)
ImpartExpLoss(experience) == experience \div 100
AfterImpartLoss(experience) == Max(0, experience - ImpartExpLoss(experience))

\* the winner's impart_atk_per rises by the gain, capped at 1.0
ImpartAfterGain(info, gain) ==
    IF info = NoImpartInfo THEN info ELSE Min(ImpartFull, info + gain)

\* the loser's impart_atk_per falls by half the gain, not below zero
ImpartAfterLoss(info, gain) ==
    IF info = NoImpartInfo \/ info <= 0 THEN info ELSE info - Min(gain \div 2, info)

ChallengeImpart(attacker, defender) ==
    /\ Issue
    /\ attacker # defender
    /\ \E winner \in BattleWinners(attacker, defender), gain \in ImpartGains :
          LET attacker_wins == AttackerWins(winner) IN
          /\ IF attacker_wins
                THEN /\ impart' = [info |-> [impart.info EXCEPT
                                                ![attacker] = ImpartAfterGain(@, gain),
                                                ![defender] = ImpartAfterLoss(@, gain)],
                                    result |-> [attacker |-> attacker, defender |-> defender,
                                                winner |-> winner, attacker_wins |-> TRUE,
                                                gain |-> gain]]
                     /\ UNCHANGED player
                ELSE /\ player' = [player EXCEPT
                                      ![attacker].experience = AfterImpartLoss(@)]
                     /\ impart' = [impart EXCEPT
                                      !.result = [attacker |-> attacker, defender |-> defender,
                                                  winner |-> winner, attacker_wins |-> FALSE,
                                                  gain |-> gain]]
    /\ UNCHANGED <<now, user_cd, route_cooldowns, last, task, bossVars, giftVars, battleVars,
                   extVars, skills, equipment, shop, dual, bounty>>

\* impart rows absent, empty, nearly empty or nearly full
InitImpart ==
    /\ skills = NoSkills
    /\ equipment = NoEquipment
    /\ shop = NoShop
    /\ impart \in { [NoImpart EXCEPT !.info = i] :
                       i \in [Users -> {NoImpartInfo, 0, 3, ImpartFull - 20}] }
    /\ dual = NoDual
    /\ bounty = NoBounty

NextImpart == \E attacker, defender \in Users : ChallengeImpart(attacker, defender)

InitSpecImpart ==
    InitAct /\ InitTasks /\ InitBoss /\ InitNoGift /\ InitNoBattle /\ InitNoExt /\ InitImpart

SpecImpart == InitSpecImpart /\ [][NextImpart]_vars

\* C36: a challenge reports the attacker as winner exactly when the battle
\* result names the attacker as winner; the attacker's gain and the defender's
\* loss are applied exactly then, and otherwise only the attacker loses 1% of
\* the experience.
C36_ImpartFollowsBattleWinner ==
    [][ncmd' = ncmd + 1 =>
         LET r == impart'.result IN
         /\ r.attacker_wins <=> (r.winner = r.attacker)
         /\ IF r.winner = r.attacker
               THEN /\ impart'.info[r.attacker] = ImpartAfterGain(impart.info[r.attacker], r.gain)
                    /\ impart'.info[r.defender] = ImpartAfterLoss(impart.info[r.defender], r.gain)
                    /\ player' = player
               ELSE /\ impart'.info = impart.info
                    /\ player' = [player EXCEPT
                                     ![r.attacker].experience = AfterImpartLoss(@)]]_vars

(***************************************************************************)
(* Skills: SkillManager.learn_skill, equip_skill, unequip_skill            *)
(***************************************************************************)
MAX_EQUIPPED_SKILLS == 2
SkillPrice == 100
MaxSkillCmds == 6

\* the skill configuration: three skills within reach, one above the player's
\* realm; "s0" is an id the configuration does not know
SkillConfig == [s1 |-> [price |-> 0, required_level_index |-> 0],
                s2 |-> [price |-> SkillPrice, required_level_index |-> CfgLevelIndex],
                s3 |-> [price |-> 0, required_level_index |-> 0],
                s4 |-> [price |-> 0, required_level_index |-> CfgLevelIndex + 1]]
SkillIds == DOMAIN SkillConfig
SkillArgs == SkillIds \cup {"s0"}

\* skill_id in list
InList(x, list) == \E i \in 1..Len(list) : list[i] = x

\* list.remove(x): the first occurrence goes
ListRemove(list, x) ==
    LET i == CHOOSE k \in 1..Len(list) :
                 list[k] = x /\ \A j \in 1..(k - 1) : list[j] # x
    IN  SubSeq(list, 1, i - 1) \o SubSeq(list, i + 1, Len(list))

SkillSlotsFull_Never(equipped_skills) == FALSE

\* len(equipped_skills) >= MAX_EQUIPPED_SKILLS
SkillSlotsFull(equipped_skills) == Len(equipped_skills) >= MAX_EQUIPPED_SKILLS

SkillIssue == ncmd < MaxSkillCmds /\ ncmd' = ncmd + 1

SkillReply(cmd, u, ok, why) ==
    /\ last' = Reply(cmd, u, ok, why, 0, 0, 0)
    /\ UNCHANGED <<now, user_cd, route_cooldowns, task, bossVars, giftVars, battleVars,
                   extVars, equipment, shop, impart, dual, bounty>>

LearnSkill(u, skill_id, cost_gold) ==
    /\ SkillIssue
    /\ LET learned_skills == skills[u].learned_skills IN
       IF skill_id \notin SkillIds
       THEN /\ SkillReply("learn_skill", u, FALSE, "unknown_skill")
            /\ UNCHANGED <<player, skills>>
       ELSE IF InList(skill_id, learned_skills)
       THEN /\ SkillReply("learn_skill", u, FALSE, "already_learned")
            /\ UNCHANGED <<player, skills>>
       ELSE IF player[u].level_index < SkillConfig[skill_id].required_level_index
       THEN /\ SkillReply("learn_skill", u, FALSE, "level_too_low")
            /\ UNCHANGED <<player, skills>>
       ELSE IF cost_gold /\ player[u].gold < SkillConfig[skill_id].price
       THEN /\ SkillReply("learn_skill", u, FALSE, "no_gold")
            /\ UNCHANGED <<player, skills>>
       ELSE /\ player' = [player EXCEPT ![u].gold =
                             IF cost_gold THEN @ - SkillConfig[skill_id].price ELSE @]
            /\ skills' = [skills EXCEPT
                             ![u].learned_skills = Append(learned_skills, skill_id)]
            /\ SkillReply("learn_skill", u, TRUE, "ok")

EquipSkill(u, skill_id) ==
    /\ SkillIssue
    /\ UNCHANGED player
    /\ LET equipped_skills == skills[u].equipped_skills IN
       IF skill_id \notin SkillIds
       THEN /\ SkillReply("equip_skill", u, FALSE, "unknown_skill")
            /\ UNCHANGED skills
       ELSE IF ~InList(skill_id, skills[u].learned_skills)
       THEN /\ SkillReply("equip_skill", u, FALSE, "not_learned")
            /\ UNCHANGED skills
       ELSE IF InList(skill_id, equipped_skills)
       THEN /\ SkillReply("equip_skill", u, FALSE, "already_equipped")
            /\ UNCHANGED skills
       ELSE IF SkillSlotsFull(equipped_skills)
       THEN /\ SkillReply("equip_skill", u, FALSE, "slots_full")
            /\ UNCHANGED skills
       ELSE /\ skills' = [skills EXCEPT
                             ![u].equipped_skills = Append(equipped_skills, skill_id)]
            /\ SkillReply("equip_skill", u, TRUE, "ok")

UnequipSkill(u, skill_id) ==
    /\ SkillIssue
    /\ UNCHANGED player
    /\ LET equipped_skills == skills[u].equipped_skills IN
       IF skill_id \notin SkillIds
       THEN /\ SkillReply("unequip_skill", u, FALSE, "unknown_skill")
            /\ UNCHANGED skills
       ELSE IF ~InList(skill_id, equipped_skills)
       THEN /\ SkillReply("unequip_skill", u, FALSE, "not_equipped")
            /\ UNCHANGED skills
       ELSE /\ skills' = [skills EXCEPT
                             ![u].equipped_skills = ListRemove(equipped_skills, skill_id)]
            /\ SkillReply("unequip_skill", u, TRUE, "ok")

\* new players with nothing learned: one can pay for the paid skill, one cannot
InitSkill ==
    /\ now = TickStep
    /\ player = [u \in Users |->
                    [BlankRow EXCEPT !.experience = CfgExperience,
                                     !.gold = IF u = "u1" THEN SkillPrice ELSE 0,
                                     !.hp = CfgMaxHp, !.max_hp = CfgMaxHp,
                                     !.mp = CfgMaxMp, !.max_mp = CfgMaxMp,
                                     !.level_index = CfgLevelIndex]]
    /\ user_cd = [u \in Users |-> NoCd]
    /\ route_cooldowns = [u \in Users |-> 0]
    /\ ncmd = 0
    /\ last = NoReply

NextSkill ==
    \E u \in Users, skill_id \in SkillArgs :
        \/ \E cost_gold \in BOOLEAN : LearnSkill(u, skill_id, cost_gold)
        \/ EquipSkill(u, skill_id)
        \/ UnequipSkill(u, skill_id)

InitSpecSkill ==
    InitSkill /\ InitTasks /\ InitBoss /\ InitNoGift /\ InitNoBattle /\ InitNoExt /\ InitNoSvc

SpecSkill == InitSpecSkill /\ [][NextSkill]_vars

\* C32: after any sequence of learn, equip and unequip commands a player has
\* at most MAX_EQUIPPED_SKILLS equipped skills and every equipped skill is a
\* learned one.
C32_EquippedSkillsBounded ==
    \A u \in Users :
        /\ Len(skills[u].equipped_skills) <= MAX_EQUIPPED_SKILLS
        /\ \A i \in 1..Len(skills[u].equipped_skills) :
              InList(skills[u].equipped_skills[i], skills[u].learned_skills)

\* an equip command refused because both slots are taken
C32_Witness ==
    /\ last.cmd = "equip_skill"
    /\ ~last.ok
    /\ last.why = "slots_full"
    /\ Len(skills[last.user].equipped_skills) = MAX_EQUIPPED_SKILLS
    /\ Len(skills[last.user].learned_skills) > MAX_EQUIPPED_SKILLS

(***************************************************************************)
(* Dual cultivation: DualCultivationManager.send_request, accept_request,  *)
(* reject_request                                                          *)
(***************************************************************************)
DUAL_CULT_COOLDOWN == 3600
DualRequestLifetime == 300
DualShortStep == 200
DualLongStep == 3600
MaxDualTime == 4400
MaxDualCmds == 4

\* int(experience * DUAL_CULT_EXP_BONUS)
DualExpGain(experience) == experience \div 10

\* last_dual and (now - last_dual) < DUAL_CULT_COOLDOWN
DualOnCooldown(last_dual, t) == last_dual # 0 /\ (t - last_dual) < DUAL_CULT_COOLDOWN

\* now - request["time"] > 300
DualRequestExpired(request, t) == t - request.time > DualRequestLifetime

DualIssue == ncmd < MaxDualCmds /\ ncmd' = ncmd + 1

DualReply(cmd, u, ok, why) ==
    /\ last' = Reply(cmd, u, ok, why, 0, 0, 0)
    /\ UNCHANGED <<now, user_cd, route_cooldowns, task, bossVars, giftVars, battleVars,
                   extVars, skills, equipment, shop, impart, bounty>>

SendRequest(initiator, target_id) ==
    /\ DualIssue
    /\ UNCHANGED player
    /\ IF initiator = target_id
       THEN /\ DualReply("send_request", initiator, FALSE, "self")
            /\ UNCHANGED dual
       ELSE IF CdBusy(user_cd[initiator])
       THEN /\ DualReply("send_request", initiator, FALSE, "busy")
            /\ UNCHANGED dual
       ELSE IF CdBusy(user_cd[target_id])
       THEN /\ DualReply("send_request", initiator, FALSE, "target_busy")
            /\ UNCHANGED dual
       ELSE IF DualOnCooldown(dual.last_dual_time[initiator], now)
       THEN /\ DualReply("send_request", initiator, FALSE, "cooldown")
            /\ UNCHANGED dual
       ELSE /\ dual' = [dual EXCEPT !.pending_requests[target_id] =
                                        [from_id |-> initiator, time |-> now]]
            /\ DualReply("send_request", initiator, TRUE, "ok")

AcceptRequest(acceptor) ==
    /\ DualIssue
    /\ LET request == dual.pending_requests[acceptor] IN
       IF request = NoRequest
       THEN /\ DualReply("accept_request", acceptor, FALSE, "no_request")
            /\ UNCHANGED <<player, dual>>
       ELSE IF DualRequestExpired(request, now)
       THEN /\ dual' = [dual EXCEPT !.pending_requests[acceptor] = NoRequest]
            /\ DualReply("accept_request", acceptor, FALSE, "expired")
            /\ UNCHANGED player
       ELSE LET initiator == request.from_id
                init_exp_gain == DualExpGain(player[acceptor].experience)
                accept_exp_gain == DualExpGain(player[initiator].experience)
            IN  /\ player' = [player EXCEPT
                                 ![initiator].experience = @ + init_exp_gain,
                                 ![acceptor].experience = @ + accept_exp_gain]
                /\ dual' = [pending_requests |->
                               [dual.pending_requests EXCEPT ![acceptor] = NoRequest],
                            last_dual_time |->
                               [dual.last_dual_time EXCEPT ![initiator] = now,
                                                           ![acceptor] = now],
                            done |-> Append(dual.done, [initiator |-> initiator,
                                                        acceptor |-> acceptor,
                                                        time |-> now])]
                /\ DualReply("accept_request", acceptor, TRUE, "ok")

RejectRequest(rejecter_id) ==
    /\ DualIssue
    /\ UNCHANGED player
    /\ IF dual.pending_requests[rejecter_id] = NoRequest
       THEN /\ DualReply("reject_request", rejecter_id, FALSE, "no_request")
            /\ UNCHANGED dual
       ELSE /\ dual' = [dual EXCEPT !.pending_requests[rejecter_id] = NoRequest]
            /\ DualReply("reject_request", rejecter_id, TRUE, "ok")

\* time passes: a few minutes at first, then an hour at a time
DualTick ==
    /\ \E step \in {DualShortStep, DualLongStep} :
          /\ step = DualShortStep => now < 3 * DualShortStep
          /\ now + step <= MaxDualTime
          /\ now' = now + step
    /\ UNCHANGED <<player, user_cd, route_cooldowns, ncmd, last, task, bossVars, giftVars,
                   battleVars, extVars, svcVars>>

InitDual ==
    /\ now = DualShortStep
    /\ player = [u \in Users |->
                    [BlankRow EXCEPT !.experience = CfgExperience,
                                     !.hp = CfgMaxHp, !.max_hp = CfgMaxHp,
                                     !.mp = CfgMaxMp, !.max_mp = CfgMaxMp,
                                     !.level_index = CfgLevelIndex]]
    /\ user_cd = [u \in Users |-> NoCd]
    /\ route_cooldowns = [u \in Users |-> 0]
    /\ ncmd = 0
    /\ last = NoReply

NextDual ==
    \/ DualTick
    \/ \E u \in Users : StartCultivation(u)
    \/ \E initiator, target_id \in Users : SendRequest(initiator, target_id)
    \/ \E u \in Users : AcceptRequest(u)
    \/ \E u \in Users : RejectRequest(u)

InitSpecDual ==
    InitDual /\ InitTasks /\ InitBoss /\ InitNoGift /\ InitNoBattle /\ InitNoExt /\ InitNoSvc

SpecDual == InitSpecDual /\ [][NextDual]_vars

\* the players of one successful dual cultivation
DualParties(d) == {d.initiator, d.acceptor}

\* C38: no player takes part in two successful dual cultivations less than
\* DUAL_CULT_COOLDOWN seconds apart, as initiator or as acceptor.
C38_OneDualPerCooldown ==
    \A i, j \in 1..Len(dual.done) :
        (i < j /\ DualParties(dual.done[i]) \cap DualParties(dual.done[j]) # {})
            => dual.done[j].time - dual.done[i].time >= DUAL_CULT_COOLDOWN

(***************************************************************************)
(* Shop: ShopHandler.handle_buy over DataBase.get_shop_stock,              *)
(* transactional_buy_item and decrease_shop_stock; every await is a step   *)
(***************************************************************************)
ShopItemPrice == 10
ShopMaxStock == 2
ShopMaxQuantity == 2

\* units granted to all buyers so far
UnitsPaid(sh) == SumOver(sh.inventory, Users)

ShopFrame ==
    UNCHANGED <<now, user_cd, route_cooldowns, task, bossVars, giftVars, battleVars,
                extVars, skills, equipment, impart, dual, bounty>>

\* the command arrives: get_shop_stock, the stock test, total_cost
Buy_CheckStock(u, quantity) ==
    /\ Issue
    /\ shop.call[u].pc = "idle"
    /\ LET current_stock == shop.stock IN
       IF current_stock < quantity
       THEN /\ last' = Reply("buy", u, FALSE, "no_stock", 0, 0, current_stock)
            /\ UNCHANGED shop
       ELSE /\ shop' = [shop EXCEPT !.call[u] = [pc |-> "pay", quantity |-> quantity,
                                                  total_cost |-> ShopItemPrice * quantity]]
            /\ UNCHANGED last
    /\ UNCHANGED player
    /\ ShopFrame

\* transactional_buy_item: gold is taken and the items are granted in one
\* transaction, or nothing happens
Buy_Pay(u) ==
    /\ shop.call[u].pc = "pay"
    /\ LET c == shop.call[u] IN
       IF player[u].gold >= c.total_cost
       THEN /\ player' = [player EXCEPT ![u].gold = @ - c.total_cost]
            /\ shop' = [shop EXCEPT !.inventory[u] = @ + c.quantity,
                                    !.call[u].pc = "stock"]
            /\ UNCHANGED last
       ELSE /\ shop' = [shop EXCEPT !.call[u] = NoBuy]
            /\ last' = Reply("buy", u, FALSE, "no_gold", 0, 0, 0)
            /\ UNCHANGED player
    /\ UNCHANGED ncmd
    /\ ShopFrame

\* decrease_shop_stock: UPDATE ... WHERE stock >= quantity; the handler only
\* logs a failure and reports the purchase
Buy_DecreaseStock(u) ==
    /\ shop.call[u].pc = "stock"
    /\ LET c == shop.call[u]
           stock_decreased == shop.stock >= c.quantity
       IN  /\ shop' = [shop EXCEPT !.stock = IF stock_decreased THEN @ - c.quantity ELSE @,
                                   !.call[u] = NoBuy]
           /\ last' = Reply("buy", u, TRUE, IF stock_decreased THEN "ok" ELSE "stock_not_decreased",
                            0, c.total_cost, shop'.stock)
    /\ UNCHANGED <<player, ncmd>>
    /\ ShopFrame

\* today's shop holds one or two units; a buyer can pay for none or for all
InitShop ==
    /\ now = TickStep
    /\ player \in [Users -> { [BlankRow EXCEPT !.experience = CfgExperience, !.gold = g,
                                               !.hp = CfgMaxHp, !.max_hp = CfgMaxHp,
                                               !.mp = CfgMaxMp, !.max_mp = CfgMaxMp,
                                               !.level_index = CfgLevelIndex] :
                                  g \in {ShopItemPrice - 1, 2 * ShopMaxStock * ShopItemPrice} }]
    /\ user_cd = [u \in Users |-> NoCd]
    /\ route_cooldowns = [u \in Users |-> 0]
    /\ ncmd = 0
    /\ last = NoReply
    /\ skills = NoSkills
    /\ equipment = NoEquipment
    /\ shop \in { [NoShop EXCEPT !.stock = n, !.on_sale = n] : n \in 1..ShopMaxStock }
    /\ impart = NoImpart
    /\ dual = NoDual
    /\ bounty = NoBounty

NextShop ==
    \E u \in Users :
        \/ \E quantity \in 1..ShopMaxQuantity : Buy_CheckStock(u, quantity)
        \/ Buy_Pay(u)
        \/ Buy_DecreaseStock(u)

InitSpecShop == InitShop /\ InitTasks /\ InitBoss /\ InitNoGift /\ InitNoBattle /\ InitNoExt

SpecShop == InitSpecShop /\ [][NextShop]_vars

\* C34: for any interleaving of buyers the stock is never negative and the
\* units paid for and granted never exceed the stock that was put on sale.
C34_PaidUnitsWithinStock ==
    /\ shop.stock >= 0
    /\ UnitsPaid(shop) <= shop.on_sale

(***************************************************************************)
(* Equipment: EquipmentHandler.handle_equip_item, handle_unequip_item      *)
(***************************************************************************)
\* the catalog: iron is a weapon of the player's realm, herb is a material;
\* "dust" is a name the catalog does not know
EquipItemConfig == [iron |-> [type |-> "weapon", required_level_index |-> CfgLevelIndex],
                    herb |-> [type |-> "material", required_level_index |-> 0]]
EquipArgs == Items \cup {"dust"}

\* what the player names in an unequip command: a slot or an item
UnequipArgs == EquipSlots \cup Items

\* EquipmentManager.equip_item: the slot of the item's type must be free and
\* the player's realm must reach the item's
EquipAllowed(p, slots, item_name) ==
    /\ slots[EquipItemConfig[item_name].type] = ""
    /\ p.level_index >= EquipItemConfig[item_name].required_level_index

\* the slot an unequip command names, "" when it names nothing equipped
UnequipSlot(slots, slot_or_name) ==
    IF slot_or_name \in EquipSlots THEN slot_or_name
    ELSE IF slots["weapon"] = slot_or_name THEN "weapon"
    ELSE IF slots["armor"] = slot_or_name THEN "armor"
    ELSE IF slots["main_technique"] = slot_or_name THEN "main_technique"
    ELSE ""

\* copies of an item a player holds in the ring and in the slots
InSlots(slots, item) == IF \E sl \in EquipSlots : slots[sl] = item THEN 1 ELSE 0
Holding(rs, eq, u, item) == rs[u][item] + InSlots(eq[u], item)

EquipFrame ==
    UNCHANGED <<now, player, user_cd, route_cooldowns, task, bossVars, battleVars, extVars,
                pending_gifts, skills, shop, impart, dual, bounty>>

HandleEquipItem(u, item_name) ==
    /\ GiftIssue
    /\ IF item_name \notin Items
       THEN /\ last' = Reply("equip_item", u, FALSE, "not_found", 0, 0, 0)
            /\ UNCHANGED <<rings, equipment>>
       ELSE IF EquipItemConfig[item_name].type \notin EquipSlots
       THEN /\ last' = Reply("equip_item", u, FALSE, "not_equippable", 0, 0, 0)
            /\ UNCHANGED <<rings, equipment>>
       ELSE IF ~HasItem(rings[u], item_name, 1)
       THEN /\ last' = Reply("equip_item", u, FALSE, "not_in_ring", 0, 0, 0)
            /\ UNCHANGED <<rings, equipment>>
       ELSE LET taken == RetrieveItem(rings, u, item_name, 1) IN
            IF EquipAllowed(player[u], equipment[u], item_name)
            THEN /\ rings' = taken
                 /\ equipment' = [equipment EXCEPT
                                     ![u][EquipItemConfig[item_name].type] = item_name]
                 /\ last' = Reply("equip_item", u, TRUE, "ok", 0, 0, 0)
            ELSE /\ rings' = StoreItem(taken, u, item_name, 1)
                 /\ UNCHANGED equipment
                 /\ last' = Reply("equip_item", u, FALSE, "equip_failed", 0, 0, 0)
    /\ EquipFrame

HandleUnequipItem(u, slot_or_name) ==
    /\ GiftIssue
    /\ LET slot == UnequipSlot(equipment[u], slot_or_name)
           unequipped_item_name == IF slot = "" THEN "" ELSE equipment[u][slot]
       IN  IF unequipped_item_name = ""
           THEN /\ last' = Reply("unequip_item", u, FALSE, "nothing_equipped", 0, 0, 0)
                /\ UNCHANGED <<rings, equipment>>
           ELSE /\ equipment' = [equipment EXCEPT ![u][slot] = ""]
                /\ rings' = StoreItem(rings, u, unequipped_item_name, 1)
                /\ last' = Reply("unequip_item", u, TRUE,
                                 IF CanStore(rings[u], unequipped_item_name)
                                 THEN "ok" ELSE "store_failed", 0, 0, 0)
    /\ EquipFrame

\* every player holds at most one item, nothing is equipped; a player is of the
\* weapon's realm or one below
InitEquip ==
    /\ now = TickStep
    /\ player \in [Users -> { [BlankRow EXCEPT !.experience = CfgExperience,
                                               !.hp = CfgMaxHp, !.max_hp = CfgMaxHp,
                                               !.mp = CfgMaxMp, !.max_mp = CfgMaxMp,
                                               !.level_index = lv] :
                                  lv \in {CfgLevelIndex - 1, CfgLevelIndex} }]
    /\ user_cd = [u \in Users |-> NoCd]
    /\ route_cooldowns = [u \in Users |-> 0]
    /\ ncmd = 0
    /\ last = NoReply
    /\ rings \in { r \in [Users -> [Items -> {0, 1}]] :
                      \A u \in Users : Distinct(r[u]) <= RingCapacity }
    /\ pending_gifts = [u \in Users |-> NoGift]

NextEquip ==
    \/ \E u \in Users, item_name \in EquipArgs : HandleEquipItem(u, item_name)
    \/ \E u \in Users, slot_or_name \in UnequipArgs : HandleUnequipItem(u, slot_or_name)
    \/ \E s \in Users, r \in Users, item \in Items : HandleGiftItem(s, r, item, 1)
    \/ \E r \in Users : HandleAcceptGift(r)

InitSpecEquip == InitEquip /\ InitTasks /\ InitBoss /\ InitNoBattle /\ InitNoExt /\ InitNoSvc

SpecEquip == InitSpecEquip /\ [][NextEquip]_vars

\* C33: an equip or unequip command moves an item between the ring and the
\* slot or leaves it where it is: after the command the player holds as many
\* copies of every item, in ring and slots together, as before; a successful
\* unequip leaves the slot empty and the item in the ring.
C33_ItemInRingOrSlot ==
    [][\A u \in Users :
         (ncmd' = ncmd + 1 /\ last'.user = u /\ last'.cmd \in {"equip_item", "unequip_item"})
            => \A item \in Items :
                  Holding(rings', equipment', u, item) = Holding(rings, equipment, u, item)]_vars

(***************************************************************************)
(* Bounties: BountyManager.accept_bounty, add_bounty_progress,             *)
(* complete_bounty, abandon_bounty, check_and_expire_bounties.  All calls  *)
(* share the one connection DataBase.conn; every await is a step.          *)
(***************************************************************************)
BountyActive == 1
BountyCancelled == 0
BountyCompleted == 2
BountyExpired == 3
BountyAbandonCooldown == 1800
BountyStone == 300
BountyExp == 2500
BountyTarget == 2
BountyTimeLimit == 1200
BountyTickStep == 600
MaxBountyTime == 2400
MaxBountyCmds == 3
MaxBountyRows == 2

BountyOps == {"accept", "progress", "complete", "abandon"}

\* the operations that open with BEGIN IMMEDIATE
BountyOpsInTxn == {"accept", "progress", "complete"}

BountyRow(u, t) ==
    [user_id |-> u, target_count |-> BountyTarget, current_progress |-> 0,
     expire_time |-> t + BountyTimeLimit, status |-> BountyActive]

\* db.ext.get_active_bounty: the position of the user's row of status 1, 0 for None
GetActiveBounty(rows, u) ==
    IF \E i \in 1..Len(rows) : rows[i].user_id = u /\ rows[i].status = BountyActive
    THEN CHOOSE i \in 1..Len(rows) :
            /\ rows[i].user_id = u /\ rows[i].status = BountyActive
            /\ \A j \in 1..(i - 1) : ~(rows[j].user_id = u /\ rows[j].status = BountyActive)
    ELSE 0

\* UPDATE bounty_tasks SET status = ? WHERE user_id = ? AND status = 1
SetStatusOfActive(rows, u, status) ==
    [i \in 1..Len(rows) |->
        IF rows[i].user_id = u /\ rows[i].status = BountyActive
        THEN [rows[i] EXCEPT !.status = status] ELSE rows[i]]

\* UPDATE bounty_tasks SET current_progress = ? WHERE user_id = ? AND status = 1
\*   AND current_progress = ?
SetProgressOfActive(rows, u, new_progress, progress) ==
    [i \in 1..Len(rows) |->
        IF rows[i].user_id = u /\ rows[i].status = BountyActive
              /\ rows[i].current_progress = progress
        THEN [rows[i] EXCEPT !.current_progress = new_progress] ELSE rows[i]]

\* UPDATE bounty_tasks SET status = 3 WHERE status = 1 AND expire_time < ?
ExpireRows(rows, t) ==
    [i \in 1..Len(rows) |->
        IF rows[i].status = BountyActive /\ rows[i].expire_time < t
        THEN [rows[i] EXCEPT !.status = BountyExpired] ELSE rows[i]]

BountyFrame ==
    UNCHANGED <<user_cd, route_cooldowns, task, bossVars, giftVars, battleVars, extVars,
                skills, equipment, shop, impart, dual>>

BountyReply(t, ok, why) ==
    last' = Reply(bounty.call[t].op, bounty.call[t].user, ok, why, 0, 0, 0)

\* the call of task t ends; the database changes as given
BountyEnd(t, rows, txn) ==
    bounty' = [bounty EXCEPT !.tasks = rows, !.txn = txn, !.call[t] = NoBountyCall]

\* a command or an activity enters the manager with the Player it loaded
BountyCall(t, u, op) ==
    /\ ncmd < MaxBountyCmds
    /\ ncmd' = ncmd + 1
    /\ bounty.call[t].pc = "idle"
    /\ bounty' = [bounty EXCEPT !.call[t] =
                     [NoBountyCall EXCEPT !.op = op, !.user = u,
                                          !.pc = IF op \in BountyOpsInTxn THEN "begin" ELSE "read",
                                          !.gold = player[u].gold,
                                          !.experience = player[u].experience,
                                          !.time = now]]
    /\ UNCHANGED <<now, player, last>>
    /\ BountyFrame

\* BEGIN IMMEDIATE: an error when the connection is inside a transaction; the
\* statement stands before the try block, so the call ends there
Bounty_Begin(t) ==
    /\ bounty.call[t].pc = "begin"
    /\ IF bounty.txn
       THEN /\ bounty' = [bounty EXCEPT !.call[t] = NoBountyCall]
            /\ BountyReply(t, FALSE, "error")
       ELSE /\ bounty' = [bounty EXCEPT !.txn = TRUE, !.call[t].pc = "read"]
            /\ UNCHANGED last
    /\ UNCHANGED <<now, player, ncmd>>
    /\ BountyFrame

\* accept_bounty inside the transaction: active bounty, abandon cooldown, INSERT, commit
Accept_Insert(t) ==
    /\ bounty.call[t].pc = "read"
    /\ bounty.call[t].op = "accept"
    /\ LET c == bounty.call[t] IN
       IF GetActiveBounty(bounty.tasks, c.user) # 0
       THEN /\ BountyEnd(t, bounty.tasks, FALSE)
            /\ BountyReply(t, FALSE, "has_active")
       ELSE IF bounty.abandon_cd[c.user] # 0 /\ c.time < bounty.abandon_cd[c.user]
       THEN /\ BountyEnd(t, bounty.tasks, FALSE)
            /\ BountyReply(t, FALSE, "abandon_cooldown")
       ELSE IF Len(bounty.tasks) >= MaxBountyRows
       THEN /\ BountyEnd(t, bounty.tasks, FALSE)
            /\ BountyReply(t, FALSE, "error")
       ELSE /\ BountyEnd(t, Append(bounty.tasks, BountyRow(c.user, c.time)), FALSE)
            /\ BountyReply(t, TRUE, "ok")
    /\ UNCHANGED <<now, player, ncmd>>
    /\ BountyFrame

\* add_bounty_progress: the row is read and tested
Progress_Read(t, tag_ok) ==
    /\ bounty.call[t].pc = "read"
    /\ bounty.call[t].op = "progress"
    /\ LET c == bounty.call[t]
           active == GetActiveBounty(bounty.tasks, c.user)
       IN  IF \/ active = 0
              \/ now > bounty.tasks[active].expire_time
              \/ ~tag_ok
              \/ bounty.tasks[active].current_progress >= bounty.tasks[active].target_count
           THEN /\ BountyEnd(t, bounty.tasks, FALSE)
                /\ BountyReply(t, FALSE, "no_progress")
           ELSE /\ bounty' = [bounty EXCEPT
                                 !.call[t].pc = "write", !.call[t].active = active,
                                 !.call[t].progress = bounty.tasks[active].current_progress]
                /\ UNCHANGED last
    /\ UNCHANGED <<now, player, ncmd>>
    /\ BountyFrame

\* add_bounty_progress: the guarded UPDATE and the commit
Progress_Write(t) ==
    /\ bounty.call[t].pc = "write"
    /\ LET c == bounty.call[t]
           new_progress == Min(bounty.tasks[c.active].target_count, c.progress + 1)
       IN  /\ BountyEnd(t, SetProgressOfActive(bounty.tasks, c.user, new_progress, c.progress),
                        FALSE)
           /\ BountyReply(t, TRUE, "ok")
    /\ UNCHANGED <<now, player, ncmd>>
    /\ BountyFrame

\* complete_bounty: the row is read; expiry and progress are tested
Complete_Read(t) ==
    /\ bounty.call[t].pc = "read"
    /\ bounty.call[t].op = "complete"
    /\ LET c == bounty.call[t]
           active == GetActiveBounty(bounty.tasks, c.user)
       IN  IF active = 0
           THEN /\ BountyEnd(t, bounty.tasks, FALSE)
                /\ BountyReply(t, FALSE, "no_active")
           ELSE IF now > bounty.tasks[active].expire_time
           THEN /\ BountyEnd(t, SetStatusOfActive(bounty.tasks, c.user, BountyCancelled), FALSE)
                /\ BountyReply(t, FALSE, "expired")
           ELSE IF bounty.tasks[active].current_progress < bounty.tasks[active].target_count
           THEN /\ BountyEnd(t, bounty.tasks, FALSE)
                /\ BountyReply(t, FALSE, "not_done")
           ELSE /\ bounty' = [bounty EXCEPT
                                 !.call[t].pc = "mark", !.call[t].active = active,
                                 !.call[t].time = now,
                                 !.call[t].progress = bounty.tasks[active].current_progress]
                /\ UNCHANGED last
    /\ UNCHANGED <<now, player, ncmd>>
    /\ BountyFrame

\* complete_bounty: UPDATE bounty_tasks SET status = 2; the row count is not read
Complete_Mark(t) ==
    /\ bounty.call[t].pc = "mark"
    /\ bounty' = [bounty EXCEPT
                     !.tasks = SetStatusOfActive(bounty.tasks, bounty.call[t].user,
                                                 BountyCompleted),
                     !.call[t].pc = "pay"]
    /\ UNCHANGED <<now, player, ncmd, last>>
    /\ BountyFrame

\* complete_bounty: the reward is added to the Player the command loaded, the
\* players row is written, the transaction is committed (the cap at 2^63 - 1
\* is out of reach of these values)
Complete_Pay(t) ==
    /\ bounty.call[t].pc = "pay"
    /\ LET c == bounty.call[t] IN
       /\ player' = [player EXCEPT ![c.user].gold = c.gold + BountyStone,
                                   ![c.user].experience = c.experience + BountyExp]
       /\ bounty' = [bounty EXCEPT
                        !.txn = FALSE, !.call[t] = NoBountyCall,
                        !.paid = Append(@, [task |-> c.active, called |-> c.time,
                                            progress |-> c.progress])]
       /\ BountyReply(t, TRUE, "ok")
    /\ UNCHANGED <<now, ncmd>>
    /\ BountyFrame

\* abandon_bounty: the row is read, outside any transaction of its own
Abandon_Read(t) ==
    /\ bounty.call[t].pc = "read"
    /\ bounty.call[t].op = "abandon"
    /\ IF GetActiveBounty(bounty.tasks, bounty.call[t].user) = 0
       THEN /\ bounty' = [bounty EXCEPT !.call[t] = NoBountyCall]
            /\ BountyReply(t, FALSE, "no_active")
       ELSE /\ bounty' = [bounty EXCEPT !.call[t].pc = "cancel"]
            /\ UNCHANGED last
    /\ UNCHANGED <<now, player, ncmd>>
    /\ BountyFrame

\* abandon_bounty: cancel_bounty and the abandon cooldown, each with its commit
Abandon_Cancel(t) ==
    /\ bounty.call[t].pc = "cancel"
    /\ LET c == bounty.call[t] IN
       bounty' = [bounty EXCEPT
                    !.tasks = SetStatusOfActive(bounty.tasks, c.user, BountyCancelled),
                    !.abandon_cd[c.user] = now + BountyAbandonCooldown,
                    !.txn = FALSE, !.call[t] = NoBountyCall]
    /\ BountyReply(t, TRUE, "ok")
    /\ UNCHANGED <<now, player, ncmd>>
    /\ BountyFrame

\* the sweeper: check_and_expire_bounties
CheckAndExpireBounties ==
    /\ ExpireRows(bounty.tasks, now) # bounty.tasks \/ bounty.txn
    /\ bounty' = [bounty EXCEPT !.tasks = ExpireRows(bounty.tasks, now), !.txn = FALSE]
    /\ UNCHANGED <<now, player, ncmd, last>>
    /\ BountyFrame

BountyTick ==
    /\ now + BountyTickStep <= MaxBountyTime
    /\ now' = now + BountyTickStep
    /\ UNCHANGED <<player, user_cd, route_cooldowns, ncmd, last, task, bossVars, giftVars,
                   battleVars, extVars, svcVars>>

\* u1 has accepted a bounty and is one step short of the target or has
\* reached it; u2 has none
InitBounty ==
    /\ now = BountyTickStep
    /\ player = [u \in Users |->
                    [BlankRow EXCEPT !.experience = CfgExperience,
                                     !.hp = CfgMaxHp, !.max_hp = CfgMaxHp,
                                     !.mp = CfgMaxMp, !.max_mp = CfgMaxMp,
                                     !.level_index = CfgLevelIndex]]
    /\ user_cd = [u \in Users |-> NoCd]
    /\ route_cooldowns = [u \in Users |-> 0]
    /\ ncmd = 0
    /\ last = NoReply
    /\ skills = NoSkills
    /\ equipment = NoEquipment
    /\ shop = NoShop
    /\ impart = NoImpart
    /\ dual = NoDual
    /\ \E progress \in {BountyTarget - 1, BountyTarget} :
          bounty = [NoBounty EXCEPT !.tasks =
                      <<[BountyRow("u1", BountyTickStep) EXCEPT !.current_progress = progress]>>]

NextBounty ==
    \/ BountyTick
    \/ CheckAndExpireBounties
    \/ \E t \in Tasks :
          \/ \E u \in Users, op \in BountyOps : BountyCall(t, u, op)
          \/ Bounty_Begin(t)
          \/ Accept_Insert(t)
          \/ \E tag_ok \in BOOLEAN : Progress_Read(t, tag_ok)
          \/ Progress_Write(t)
          \/ Complete_Read(t)
          \/ Complete_Mark(t)
          \/ Complete_Pay(t)
          \/ Abandon_Read(t)
          \/ Abandon_Cancel(t)

InitSpecBounty == InitBounty /\ InitTasks /\ InitBoss /\ InitNoGift /\ InitNoBattle /\ InitNoExt

SpecBounty == InitSpecBounty /\ [][NextBounty]_vars

\* C39: a bounty is paid at most once, only by a complete_bounty that found
\* progress >= target no later than the expiry time, and a bounty that was
\* abandoned or has expired is never a paid one.
C39_BountyPaidOnce ==
    /\ \A i, j \in 1..Len(bounty.paid) : i < j => bounty.paid[i].task # bounty.paid[j].task
    /\ \A k \in 1..Len(bounty.paid) :
          LET r == bounty.paid[k]
              row == bounty.tasks[r.task]
          IN  /\ r.progress >= row.target_count
              /\ r.called <= row.expire_time
              /\ row.status = BountyCompleted

(***************************************************************************)
(* Stored hp and mp under the commands that write them: end_cultivation,   *)
(* duel, spar and the boss challenge                                       *)
(***************************************************************************)
\* a boss is alive; one player is hurt, the other whole, both with no mp
InitVitals ==
    /\ now = CombatTickStep
    /\ player = [u \in Users |->
                    [BlankRow EXCEPT !.experience = CfgExperience,
                                     !.hp = IF u = "u1" THEN (CfgMaxHp * 3) \div 10 - 1
                                                       ELSE CfgMaxHp,
                                     !.max_hp = CfgMaxHp,
                                     !.mp = 0, !.max_mp = CfgMaxMp,
                                     !.level_index = CfgLevelIndex]]
    /\ user_cd = [u \in Users |-> NoCd]
    /\ route_cooldowns = [u \in Users |-> 0]
    /\ ncmd = 0
    /\ last = NoReply
    /\ bosses = <<NewBoss(1, BossBaseExp)>>
    /\ boss_defeat_time = [u \in Users |-> 0]
    /\ payouts = {}

\* no command is in flight
Quiescent == \A t \in Tasks : task[t].pc = "idle"

\* a minute or two pass between commands
VitalsTick ==
    /\ Quiescent
    /\ now < 3 * CombatTickStep
    /\ CombatTick

\* the commands come one after the other: a command starts when none is in flight
NextVitals ==
    \/ VitalsTick
    \/ \E u \in Users : Quiescent /\ StartCultivation(u)
    \/ \E u \in Users : Quiescent /\ EndCultivation(u)
    \/ \E u \in Users, target \in Users : Quiescent /\ HandleDuel(u, target)
    \/ \E u \in Users, target \in Users : Quiescent /\ HandleSpar(u, target)
    \/ \E u \in Users : Quiescent /\ Dispatch("t1", u, "challenge_boss", 0)
    \/ \E t \in Tasks : CB_Load(t)
    \/ \E t \in Tasks : CB_GetBoss(t)
    \/ \E t \in Tasks : CB_Battle(t)
    \/ \E t \in Tasks : CB_Defeat(t)
    \/ \E t \in Tasks : CB_CommitWin(t)
    \/ \E t \in Tasks : CB_UpdateBoss(t)
    \/ \E t \in Tasks : CB_CommitLose(t)
    \/ \E t \in Tasks : CB_RecordDefeat(t)

InitSpecVitals ==
    InitVitals /\ InitTasks /\ InitNoGift /\ InitNoBattle /\ InitNoExt /\ InitNoSvc

SpecVitals == InitSpecVitals /\ [][NextVitals]_vars

\* C31: whenever no command is in flight, every player's stored hp lies in
\* 0..max_hp and the stored mp in 0..max_mp, whatever cultivation finishes,
\* duels, spars and boss challenges came before.
C31_StoredVitalsWithinMaxima ==
    Quiescent =>
        \A u \in Users :
            /\ 0 <= player[u].hp /\ player[u].hp <= player[u].max_hp
            /\ 0 <= player[u].mp /\ player[u].mp <= player[u].max_mp

\* a cultivation has ended with a recovery above zero and left the player at
\* full hp: the recovery was cut at the maximum
C31_Witness ==
    /\ Quiescent
    /\ last.cmd = "end_cultivation"
    /\ last.ok
    /\ HpRecovery(player[last.user], last.basis) > 0
    /\ player[last.user].hp = player[last.user].max_hp


====
